---- MODULE Spec2Model ----
(***************************************************************************)
(* Model of the Ollama chat example: the task store and the tool registry  *)
(* of src/src/tools.py and the conversation loop chat_with_ollama of       *)
(* src/src/ollama-example.py.                                              *)
(*                                                                         *)
(* Python values are records tagged by k: a str is [k |-> "str", s],       *)
(* a list [k |-> "list", items], a dict [k |-> "dict", pairs] with pairs a *)
(* sequence of [key, val] in insertion order, a bool [k |-> "bool", b],    *)
(* None [k |-> "NoneType"].                                                *)
(* A line of console input is a sequence of one-character strings.  The    *)
(* argument text of a tool call is the sequence of its JSON tokens.        *)
(* Characters outside ASCII are written as <U+xxxx>.                       *)
(***************************************************************************)
EXTENDS Integers, Sequences, FiniteSets, TLC

VARIABLES
    pc,                   \* position of the program
    conversation_history, \* chat_with_ollama: the transcript
    tasks,                \* tools._tasks, in insertion order
    tool_calls,           \* the invocation requests of the round in progress
    idx,                  \* position of the for loop over tool_calls
    sent,                 \* messages passed to the most recent completion call
    base,                 \* snapshot taken when the current line of input was read
    event,                \* what the last step did
    calls,                \* number of completion calls made
    execs,                \* number of execute_tool_call dispatches made
    turns,                \* number of exchanges started: user turns, and the probe
    requested,            \* number of invocation requests returned so far
    outcome,              \* outcome of the last dispatch
    log,                  \* which names were added, and marked since, so far
    main                  \* what main() has done: probe result, answer, exit

vars == <<pc, conversation_history, tasks, tool_calls, idx, sent, base, event,
          calls, execs, turns, requested, outcome, log, main>>

-----------------------------------------------------------------------------
(* Bounds of the model *)

MaxTurns == 2
MaxRequests == 3
MaxDispatches == 3

-----------------------------------------------------------------------------
(* Python values *)

Str(s) == [k |-> "str", s |-> s]
List(items) == [k |-> "list", items |-> items]
Dict(pairs) == [k |-> "dict", pairs |-> pairs]
Bool(b) == [k |-> "bool", b |-> b]
None == [k |-> "NoneType"]

\* type(v).__name__
TypeName(v) == v.k

\* hash(v) raises TypeError for a list and for a dict
Hashable(v) == v.k \in {"str", "bool", "NoneType"}

RECURSIVE PyRepr(_), ReprItems(_), ReprPairs(_)
\* repr(v), for strings without quotes or escapes
PyRepr(v) ==
    CASE v.k = "str" -> "'" \o v.s \o "'"
      [] v.k = "bool" -> IF v.b THEN "True" ELSE "False"
      [] v.k = "NoneType" -> "None"
      [] v.k = "list" -> "[" \o ReprItems(v.items) \o "]"
      [] v.k = "dict" -> "{" \o ReprPairs(v.pairs) \o "}"

ReprItems(items) ==
    IF items = <<>> THEN ""
    ELSE IF Len(items) = 1 THEN PyRepr(items[1])
    ELSE PyRepr(items[1]) \o ", " \o ReprItems(Tail(items))

ReprPairs(pairs) ==
    IF pairs = <<>> THEN ""
    ELSE IF Len(pairs) = 1
         THEN "'" \o pairs[1].key \o "': " \o PyRepr(pairs[1].val)
    ELSE "'" \o pairs[1].key \o "': " \o PyRepr(pairs[1].val) \o ", "
         \o ReprPairs(Tail(pairs))

\* str(v), which is what an f-string field produces
PyStr(v) == IF v.k = "str" THEN v.s ELSE PyRepr(v)

\* keys of a dict, in insertion order
Keys(pairs) == [i \in 1..Len(pairs) |-> pairs[i].key]

HasKey(pairs, key) == \E i \in 1..Len(pairs) : pairs[i].key = key

Lookup(pairs, key) ==
    pairs[CHOOSE i \in 1..Len(pairs) : pairs[i].key = key].val

\* d[key] = val on an insertion-ordered dict: an existing key keeps its place
SetItem(pairs, key, val) ==
    IF HasKey(pairs, key)
    THEN [i \in 1..Len(pairs) |->
            IF pairs[i].key = key THEN [key |-> key, val |-> val] ELSE pairs[i]]
    ELSE Append(pairs, [key |-> key, val |-> val])

-----------------------------------------------------------------------------
(* json.loads on the token sequence of a text.  The tokens are string      *)
(* literals, true, false, null and the punctuation { } [ ] : , ; number     *)
(* literals are left out.                                                   *)

Tok(t) == [t |-> t]
StrTok(s) == [t |-> "string", s |-> s]

JsonError == [ok |-> FALSE]

RECURSIVE ParseValue(_), ParseElements(_, _), ParseMembers(_, _)
\* one JSON value at the head of toks: [ok, val, rest]
ParseValue(toks) ==
    IF toks = <<>> THEN JsonError
    ELSE LET h == Head(toks) r == Tail(toks) IN
         CASE h.t = "string" -> [ok |-> TRUE, val |-> Str(h.s), rest |-> r]
           [] h.t = "true" -> [ok |-> TRUE, val |-> Bool(TRUE), rest |-> r]
           [] h.t = "false" -> [ok |-> TRUE, val |-> Bool(FALSE), rest |-> r]
           [] h.t = "null" -> [ok |-> TRUE, val |-> None, rest |-> r]
           [] h.t = "[" ->
                IF r # <<>> /\ Head(r).t = "]"
                THEN [ok |-> TRUE, val |-> List(<<>>), rest |-> Tail(r)]
                ELSE ParseElements(r, <<>>)
           [] h.t = "{" ->
                IF r # <<>> /\ Head(r).t = "}"
                THEN [ok |-> TRUE, val |-> Dict(<<>>), rest |-> Tail(r)]
                ELSE ParseMembers(r, <<>>)
           [] OTHER -> JsonError

\* value ("," value)* "]"
ParseElements(toks, acc) ==
    LET v == ParseValue(toks) IN
    IF ~v.ok \/ v.rest = <<>> THEN JsonError
    ELSE LET n == Head(v.rest) IN
         CASE n.t = "," -> ParseElements(Tail(v.rest), Append(acc, v.val))
           [] n.t = "]" -> [ok |-> TRUE, val |-> List(Append(acc, v.val)),
                            rest |-> Tail(v.rest)]
           [] OTHER -> JsonError

\* string ":" value ("," string ":" value)* "}"; a repeated key is overwritten
ParseMembers(toks, acc) ==
    IF Len(toks) < 2 \/ toks[1].t # "string" \/ toks[2].t # ":" THEN JsonError
    ELSE LET v == ParseValue(Tail(Tail(toks))) IN
         IF ~v.ok \/ v.rest = <<>> THEN JsonError
         ELSE LET n == Head(v.rest)
                  acc2 == SetItem(acc, toks[1].s, v.val) IN
              CASE n.t = "," -> ParseMembers(Tail(v.rest), acc2)
                [] n.t = "}" -> [ok |-> TRUE, val |-> Dict(acc2),
                                 rest |-> Tail(v.rest)]
                [] OTHER -> JsonError

\* json.loads(text): [ok |-> TRUE, val] or, for JSONDecodeError, [ok |-> FALSE]
json_loads(toks) ==
    LET v == ParseValue(toks) IN
    IF v.ok /\ v.rest = <<>> THEN [ok |-> TRUE, val |-> v.val] ELSE JsonError

-----------------------------------------------------------------------------
(* tools.py: the task store *)

Returned(v, t) == [raised |-> FALSE, ret |-> v, tasks |-> t]
Raised(msg, t) == [raised |-> TRUE, exc |-> msg, tasks |-> t]

\* TypeError of a dict operation on an unhashable key
Unhashable(v) == "unhashable type: '" \o TypeName(v) \o "'"

Task(name, description, completed) ==
    [name |-> name, description |-> description, completed |-> completed]

\* an add_task that keeps the completion status a name already has
add_task_keeps_status(name, description, t) ==
    IF ~Hashable(name) THEN Raised(Unhashable(name), t)
    ELSE Returned(Str("Task '" \o PyStr(name)
                      \o "' added successfully. Task description is: "
                      \o PyStr(description)),
                  SetItem(t, name,
                          Task(name, description,
                               HasKey(t, name) /\ Lookup(t, name).completed)))

\* an add_task that rebinds the store to a dict holding only the new task
add_task_rebinds(name, description, t) ==
    IF ~Hashable(name) THEN Raised(Unhashable(name), t)
    ELSE Returned(Str("Task '" \o PyStr(name)
                      \o "' added successfully. Task description is: "
                      \o PyStr(description)),
                  SetItem(<<>>, name, Task(name, description, FALSE)))

\* an add_task that keeps the entry a name already has
add_task_first_wins(name, description, t) ==
    IF ~Hashable(name) THEN Raised(Unhashable(name), t)
    ELSE Returned(Str("Task '" \o PyStr(name)
                      \o "' added successfully. Task description is: "
                      \o PyStr(description)),
                  IF HasKey(t, name) THEN t
                  ELSE SetItem(t, name, Task(name, description, FALSE)))

add_task(name, description, t) ==
    IF ~Hashable(name) THEN Raised(Unhashable(name), t)
    ELSE Returned(Str("Task '" \o PyStr(name)
                      \o "' added successfully. Task description is: "
                      \o PyStr(description)),
                  SetItem(t, name, Task(name, description, FALSE)))

DoneMarker == "<U+2705> Done"
PendingMarker == "<U+23F3> Pending"

\* a line whose status marker is the wrong way round
TaskLineSwapped(task) ==
    "- " \o PyStr(task.name) \o ": " \o PyStr(task.description) \o " ("
    \o (IF task.completed THEN PendingMarker ELSE DoneMarker) \o ")"

TaskLine(task) ==
    "- " \o PyStr(task.name) \o ": " \o PyStr(task.description) \o " ("
    \o (IF task.completed THEN DoneMarker ELSE PendingMarker) \o ")"

RECURSIVE JoinLines(_)
\* "\n".join(lines)
JoinLines(lines) ==
    IF lines = <<>> THEN ""
    ELSE IF Len(lines) = 1 THEN lines[1]
    ELSE lines[1] \o "\n" \o JoinLines(Tail(lines))

list_tasks(t) ==
    IF t = <<>> THEN Returned(Str("No tasks found."), t)
    ELSE Returned(Str("Current tasks:\n"
                      \o JoinLines([i \in 1..Len(t) |-> TaskLine(t[i].val)])), t)

\* a mark_task_done that completes every task of the store
mark_task_done_all(name, t) ==
    IF ~Hashable(name) THEN Raised(Unhashable(name), t)
    ELSE IF ~HasKey(t, name)
         THEN Returned(Str("Task '" \o PyStr(name) \o "' not found."), t)
    ELSE Returned(Str("Task '" \o PyStr(name) \o "' marked as completed."),
                  [i \in 1..Len(t) |->
                     [t[i] EXCEPT !.val = [@ EXCEPT !.completed = TRUE]]])

\* a mark_task_done that creates the task it does not find
mark_task_done_creates(name, t) ==
    IF ~Hashable(name) THEN Raised(Unhashable(name), t)
    ELSE Returned(Str("Task '" \o PyStr(name) \o "' marked as completed."),
                  SetItem(t, name,
                          IF HasKey(t, name)
                          THEN [Lookup(t, name) EXCEPT !.completed = TRUE]
                          ELSE Task(name, Str(""), TRUE)))

mark_task_done(name, t) ==
    IF ~Hashable(name) THEN Raised(Unhashable(name), t)
    ELSE IF ~HasKey(t, name)
         THEN Returned(Str("Task '" \o PyStr(name) \o "' not found."), t)
    ELSE Returned(Str("Task '" \o PyStr(name) \o "' marked as completed."),
                  SetItem(t, name, [Lookup(t, name) EXCEPT !.completed = TRUE]))

\* a membership test that only looks whether the store holds anything
has_task_any(name, t) ==
    IF ~Hashable(name) THEN Raised(Unhashable(name), t)
    ELSE Returned(Bool(t # <<>>), t)

has_task(name, t) ==
    IF ~Hashable(name) THEN Raised(Unhashable(name), t)
    ELSE Returned(Bool(HasKey(t, name)), t)

-----------------------------------------------------------------------------
(* tools.py: the tool registry *)

\* TOOLS: the parameters each schema requires
RequiredParameters(func) ==
    CASE func = "add_task" -> {"name", "description"}
      [] func = "list_tasks" -> {}
      [] func = "mark_task_done" -> {"name"}
      [] func = "has_task" -> {"name"}

\* the functions of tool_functions and their parameters, in declaration order
tool_functions == {"add_task", "list_tasks", "mark_task_done", "has_task"}

Parameters(func) ==
    CASE func = "add_task" -> <<"name", "description">>
      [] func = "list_tasks" -> <<>>
      [] func = "mark_task_done" -> <<"name">>
      [] func = "has_task" -> <<"name">>

InSeq(x, seq) == \E i \in 1..Len(seq) : seq[i] = x

\* the elements of seq that are not in other, in order
RECURSIVE Without(_, _)
Without(seq, other) ==
    IF seq = <<>> THEN <<>>
    ELSE IF InSeq(Head(seq), other) THEN Without(Tail(seq), other)
    ELSE <<Head(seq)>> \o Without(Tail(seq), other)

\* "'a'", "'a' and 'b'"
QuotedNames(names) ==
    IF Len(names) = 1 THEN "'" \o names[1] \o "'"
    ELSE "'" \o names[1] \o "' and '" \o names[2] \o "'"

MissingMessage(func, missing) ==
    IF Len(missing) = 1
    THEN func \o "() missing 1 required positional argument: "
         \o QuotedNames(missing)
    ELSE func \o "() missing 2 required positional arguments: "
         \o QuotedNames(missing)

\* func(**arguments): the TypeError of binding the arguments, or the call
CallTool(func, arguments, t) ==
    LET params == Parameters(func) IN
    IF arguments.k # "dict"
    THEN Raised("tools." \o func \o "() argument after ** must be a mapping, not "
                \o TypeName(arguments), t)
    ELSE LET given == Keys(arguments.pairs)
             unexpected == Without(given, params)
             missing == Without(params, given)
             Arg(p) == Lookup(arguments.pairs, p) IN
         IF unexpected # <<>>
         THEN Raised(func \o "() got an unexpected keyword argument '"
                     \o unexpected[1] \o "'", t)
         ELSE IF missing # <<>> THEN Raised(MissingMessage(func, missing), t)
         ELSE CASE func = "add_task" -> add_task(Arg("name"), Arg("description"), t)
                [] func = "list_tasks" -> list_tasks(t)
                [] func = "mark_task_done" -> mark_task_done(Arg("name"), t)
                [] func = "has_task" -> has_task(Arg("name"), t)

\* the outcome of a dispatch: a result text, or an exception that escapes
Result(text, t) == [raised |-> FALSE, result |-> text, tasks |-> t]
Escapes(t) == [raised |-> TRUE, tasks |-> t]

\* a dispatch that looks the name up without the membership test
execute_tool_call_unchecked(tool_name, arguments, t) ==
    IF tool_name \notin tool_functions THEN Escapes(t)
    ELSE LET r == CallTool(tool_name, arguments, t) IN
         IF r.raised
         THEN Result("Error executing " \o tool_name \o ": " \o r.exc, r.tasks)
         ELSE Result(PyStr(r.ret), r.tasks)

\* a dispatch without the try/except around the call
execute_tool_call_uncaught(tool_name, arguments, t) ==
    IF tool_name \notin tool_functions
    THEN Result("Unknown tool: " \o tool_name, t)
    ELSE LET r == CallTool(tool_name, arguments, t) IN
         IF r.raised THEN Escapes(r.tasks) ELSE Result(PyStr(r.ret), r.tasks)

execute_tool_call(tool_name, arguments, t) ==
    IF tool_name \notin tool_functions
    THEN Result("Unknown tool: " \o tool_name, t)
    ELSE LET r == CallTool(tool_name, arguments, t) IN
         IF r.raised
         THEN Result("Error executing " \o tool_name \o ": " \o r.exc, r.tasks)
         ELSE Result(PyStr(r.ret), r.tasks)

-----------------------------------------------------------------------------
(* Specification of the tool registry: a sequence of dispatches *)

Shopping == Str("shopping")
Groceries == Str("buy groceries")

NamePair(v) == [key |-> "name", val |-> v]
DescriptionPair(v) == [key |-> "description", val |-> v]

TaskValues == {Shopping, Str("validate"), List(<<>>)}
DescriptionValues == {Groceries, Str("weekly")}

\* the argument bags a dispatch is tried on
ArgumentBags ==
    {Dict(<<>>), List(<<>>), None,
     Dict(<<[key |-> "priority", val |-> Str("high")], NamePair(Shopping)>>)}
    \cup {Dict(<<NamePair(n)>>) : n \in TaskValues}
    \cup {Dict(<<DescriptionPair(d)>>) : d \in DescriptionValues}
    \cup {Dict(<<NamePair(n), DescriptionPair(d)>>) :
            n \in TaskValues, d \in DescriptionValues}

ToolNames == tool_functions \cup {"delete_task", ""}

Idle == [kind |-> "none"]

\* main() has not run: the function under study was called directly
NotStarted ==
    [probe |-> "none", answered |-> FALSE, response |-> <<>>,
     exited |-> FALSE, exit_status |-> 0]

\* the names add_task has stored so far, and those of them that
\* mark_task_done has completed since they were last added
NoLog == [added |-> {}, marked |-> {}]

\* the log after the call tool_functions[tool_name](**arguments) on store t
Logged(tool_name, arguments, t, l) ==
    LET name == Lookup(arguments.pairs, "name") IN
    IF tool_name \notin tool_functions THEN l
    ELSE IF CallTool(tool_name, arguments, t).raised THEN l
    ELSE IF tool_name = "add_task"
         THEN [added |-> l.added \cup {name}, marked |-> l.marked \ {name}]
    ELSE IF tool_name = "mark_task_done" /\ name \in l.added
         THEN [l EXCEPT !.marked = @ \cup {name}]
    ELSE l

NoSnapshot ==
    [history |-> <<>>, tasks |-> <<>>, calls |-> 0, execs |-> 0, line |-> <<>>]

RegistryInit ==
    /\ pc = "Registry"
    /\ conversation_history = <<>>
    /\ tasks = <<>>
    /\ tool_calls = <<>>
    /\ idx = 0
    /\ sent = <<>>
    /\ base = NoSnapshot
    /\ event = "start"
    /\ calls = 0
    /\ execs = 0
    /\ turns = 0
    /\ requested = 0
    /\ outcome = Idle
    /\ log = NoLog
    /\ main = NotStarted

\* what a dispatch was called with, what it gave and the store it found
Dispatched(tool_name, arguments, r, before) ==
    [kind |-> "dispatch", tool_name |-> tool_name, arguments |-> arguments,
     raised |-> r.raised, result |-> IF r.raised THEN "" ELSE r.result,
     before |-> before]

\* a dispatch that KeyboardInterrupt left before it returned a result
Interrupted(tool_name, arguments, before) ==
    [kind |-> "interrupted", tool_name |-> tool_name, arguments |-> arguments,
     before |-> before]

Dispatch ==
    /\ pc = "Registry"
    /\ execs < MaxDispatches
    /\ \E tool_name \in ToolNames, arguments \in ArgumentBags :
        LET r == execute_tool_call(tool_name, arguments, tasks) IN
        /\ tasks' = r.tasks
        /\ outcome' = Dispatched(tool_name, arguments, r, tasks)
        /\ log' = Logged(tool_name, arguments, tasks, log)
    /\ execs' = execs + 1
    /\ event' = "dispatch"
    /\ UNCHANGED <<pc, conversation_history, tool_calls, idx, sent, base, calls,
                   turns, requested, main>>

RegistryNext == Dispatch

RegistrySpec == RegistryInit /\ [][RegistryNext]_vars

-----------------------------------------------------------------------------
(* ollama-example.py: text of a line of input *)

HexDigits == <<"0", "1", "2", "3", "4", "5", "6", "7",
               "8", "9", "A", "B", "C", "D", "E", "F">>

RECURSIVE Hex(_)
\* the hexadecimal digits of a number
Hex(n) == IF n < 16 THEN HexDigits[n + 1]
          ELSE Hex(n \div 16) \o HexDigits[(n % 16) + 1]

\* a character outside printable ASCII is written by its code point
CodePoint(n) ==
    "<U+" \o (IF n < 16 THEN "000" ELSE IF n < 256 THEN "00"
              ELSE IF n < 4096 THEN "0" ELSE "") \o Hex(n) \o ">"

\* the printable ASCII characters, U+0020 to U+007E; the grave accent U+0060
\* is written by its code point
Ascii == <<
    " ", "!", "\"", "#", "$", "%", "&", "'", "(", ")", "*", "+", ",", "-",
    ".", "/", "0", "1", "2", "3", "4", "5", "6", "7", "8", "9", ":", ";",
    "<", "=", ">", "?", "@", "A", "B", "C", "D", "E", "F", "G", "H", "I",
    "J", "K", "L", "M", "N", "O", "P", "Q", "R", "S", "T", "U", "V", "W",
    "X", "Y", "Z", "[", "\\", "]", "^", "_", "<U+0060>", "a", "b", "c", "d", "e",
    "f", "g", "h", "i", "j", "k", "l", "m", "n", "o", "p", "q", "r", "s",
    "t", "u", "v", "w", "x", "y", "z", "{", "|", "}", "~">>

\* chr(n)
Char(n) ==
    IF n >= 32 /\ n <= 126 THEN Ascii[n - 31]
    ELSE IF n = 9 THEN "\t"
    ELSE IF n = 10 THEN "\n"
    ELSE IF n = 12 THEN "\f"
    ELSE IF n = 13 THEN "\r"
    ELSE CodePoint(n)

\* the code points str.strip() removes: those str.isspace() accepts
WhitespaceCodes ==
    (9..13) \cup (28..32) \cup {133, 160, 5760} \cup (8192..8202)
    \cup {8232, 8233, 8239, 8287, 12288}

Whitespace == {Char(n) : n \in WhitespaceCodes}

\* the simple lowercase mappings, as runs <<first, last, step, offset>>:
\* every step-th code point n of first..last maps to n + offset
LowerRuns == {
    <<65, 90, 1, 32>>, <<192, 214, 1, 32>>, <<216, 222, 1, 32>>,
    <<256, 302, 2, 1>>, <<306, 310, 2, 1>>, <<313, 327, 2, 1>>,
    <<330, 374, 2, 1>>, <<376, 376, 1, -121>>, <<377, 381, 2, 1>>,
    <<385, 385, 1, 210>>, <<386, 388, 2, 1>>, <<390, 390, 1, 206>>,
    <<391, 391, 1, 1>>, <<393, 394, 1, 205>>, <<395, 395, 1, 1>>,
    <<398, 398, 1, 79>>, <<399, 399, 1, 202>>, <<400, 400, 1, 203>>,
    <<401, 401, 1, 1>>, <<403, 403, 1, 205>>, <<404, 404, 1, 207>>,
    <<406, 406, 1, 211>>, <<407, 407, 1, 209>>, <<408, 408, 1, 1>>,
    <<412, 412, 1, 211>>, <<413, 413, 1, 213>>, <<415, 415, 1, 214>>,
    <<416, 420, 2, 1>>, <<422, 422, 1, 218>>, <<423, 423, 1, 1>>,
    <<425, 425, 1, 218>>, <<428, 428, 1, 1>>, <<430, 430, 1, 218>>,
    <<431, 431, 1, 1>>, <<433, 434, 1, 217>>, <<435, 437, 2, 1>>,
    <<439, 439, 1, 219>>, <<440, 440, 1, 1>>, <<444, 444, 1, 1>>,
    <<452, 452, 1, 2>>, <<453, 453, 1, 1>>, <<455, 455, 1, 2>>,
    <<456, 456, 1, 1>>, <<458, 458, 1, 2>>, <<459, 475, 2, 1>>,
    <<478, 494, 2, 1>>, <<497, 497, 1, 2>>, <<498, 500, 2, 1>>,
    <<502, 502, 1, -97>>, <<503, 503, 1, -56>>, <<504, 542, 2, 1>>,
    <<544, 544, 1, -130>>, <<546, 562, 2, 1>>, <<570, 570, 1, 10795>>,
    <<571, 571, 1, 1>>, <<573, 573, 1, -163>>, <<574, 574, 1, 10792>>,
    <<577, 577, 1, 1>>, <<579, 579, 1, -195>>, <<580, 580, 1, 69>>,
    <<581, 581, 1, 71>>, <<582, 590, 2, 1>>, <<880, 882, 2, 1>>,
    <<886, 886, 1, 1>>, <<895, 895, 1, 116>>, <<902, 902, 1, 38>>,
    <<904, 906, 1, 37>>, <<908, 908, 1, 64>>, <<910, 911, 1, 63>>,
    <<913, 929, 1, 32>>, <<931, 939, 1, 32>>, <<975, 975, 1, 8>>,
    <<984, 1006, 2, 1>>, <<1012, 1012, 1, -60>>, <<1015, 1015, 1, 1>>,
    <<1017, 1017, 1, -7>>, <<1018, 1018, 1, 1>>, <<1021, 1023, 1, -130>>,
    <<1024, 1039, 1, 80>>, <<1040, 1071, 1, 32>>, <<1120, 1152, 2, 1>>,
    <<1162, 1214, 2, 1>>, <<1216, 1216, 1, 15>>, <<1217, 1229, 2, 1>>,
    <<1232, 1326, 2, 1>>, <<1329, 1366, 1, 48>>, <<4256, 4293, 1, 7264>>,
    <<4295, 4295, 1, 7264>>, <<4301, 4301, 1, 7264>>,
    <<5024, 5103, 1, 38864>>, <<5104, 5109, 1, 8>>,
    <<7312, 7354, 1, -3008>>, <<7357, 7359, 1, -3008>>,
    <<7680, 7828, 2, 1>>, <<7838, 7838, 1, -7615>>, <<7840, 7934, 2, 1>>,
    <<7944, 7951, 1, -8>>, <<7960, 7965, 1, -8>>, <<7976, 7983, 1, -8>>,
    <<7992, 7999, 1, -8>>, <<8008, 8013, 1, -8>>, <<8025, 8031, 2, -8>>,
    <<8040, 8047, 1, -8>>, <<8072, 8079, 1, -8>>, <<8088, 8095, 1, -8>>,
    <<8104, 8111, 1, -8>>, <<8120, 8121, 1, -8>>, <<8122, 8123, 1, -74>>,
    <<8124, 8124, 1, -9>>, <<8136, 8139, 1, -86>>, <<8140, 8140, 1, -9>>,
    <<8152, 8153, 1, -8>>, <<8154, 8155, 1, -100>>, <<8168, 8169, 1, -8>>,
    <<8170, 8171, 1, -112>>, <<8172, 8172, 1, -7>>,
    <<8184, 8185, 1, -128>>, <<8186, 8187, 1, -126>>,
    <<8188, 8188, 1, -9>>, <<8486, 8486, 1, -7517>>,
    <<8490, 8490, 1, -8383>>, <<8491, 8491, 1, -8262>>,
    <<8498, 8498, 1, 28>>, <<8544, 8559, 1, 16>>, <<8579, 8579, 1, 1>>,
    <<9398, 9423, 1, 26>>, <<11264, 11311, 1, 48>>, <<11360, 11360, 1, 1>>,
    <<11362, 11362, 1, -10743>>, <<11363, 11363, 1, -3814>>,
    <<11364, 11364, 1, -10727>>, <<11367, 11371, 2, 1>>,
    <<11373, 11373, 1, -10780>>, <<11374, 11374, 1, -10749>>,
    <<11375, 11375, 1, -10783>>, <<11376, 11376, 1, -10782>>,
    <<11378, 11378, 1, 1>>, <<11381, 11381, 1, 1>>,
    <<11390, 11391, 1, -10815>>, <<11392, 11490, 2, 1>>,
    <<11499, 11501, 2, 1>>, <<11506, 11506, 1, 1>>, <<42560, 42604, 2, 1>>,
    <<42624, 42650, 2, 1>>, <<42786, 42798, 2, 1>>, <<42802, 42862, 2, 1>>,
    <<42873, 42875, 2, 1>>, <<42877, 42877, 1, -35332>>,
    <<42878, 42886, 2, 1>>, <<42891, 42891, 1, 1>>,
    <<42893, 42893, 1, -42280>>, <<42896, 42898, 2, 1>>,
    <<42902, 42920, 2, 1>>, <<42922, 42922, 1, -42308>>,
    <<42923, 42923, 1, -42319>>, <<42924, 42924, 1, -42315>>,
    <<42925, 42925, 1, -42305>>, <<42926, 42926, 1, -42308>>,
    <<42928, 42928, 1, -42258>>, <<42929, 42929, 1, -42282>>,
    <<42930, 42930, 1, -42261>>, <<42931, 42931, 1, 928>>,
    <<42932, 42946, 2, 1>>, <<42948, 42948, 1, -48>>,
    <<42949, 42949, 1, -42307>>, <<42950, 42950, 1, -35384>>,
    <<42951, 42953, 2, 1>>, <<42960, 42960, 1, 1>>, <<42966, 42968, 2, 1>>,
    <<42997, 42997, 1, 1>>, <<65313, 65338, 1, 32>>,
    <<66560, 66599, 1, 40>>, <<66736, 66771, 1, 40>>,
    <<66928, 66938, 1, 39>>, <<66940, 66954, 1, 39>>,
    <<66956, 66962, 1, 39>>, <<66964, 66965, 1, 39>>,
    <<68736, 68786, 1, 64>>, <<71840, 71871, 1, 32>>,
    <<93760, 93791, 1, 32>>, <<125184, 125217, 1, 34>>}

\* the one code point whose lowercase is two code points
DottedI == 304

LowerPairs ==
    UNION {{<<Char(n), <<Char(n + r[4])>>>> :
              n \in {m \in r[1]..r[2] : (m - r[1]) % r[3] = 0}} :
           r \in LowerRuns}
    \cup {<<Char(DottedI), <<"i", Char(775)>>>>}

LowerTable ==
    [c \in {p[1] : p \in LowerPairs} |->
        (CHOOSE p \in LowerPairs : p[1] = c)[2]]

\* the lowercase of one character, a sequence of one or two characters
LowerChar(c) == IF c \in DOMAIN LowerTable THEN LowerTable[c] ELSE <<c>>

\* the cased characters that are not case-ignorable, as runs <<first, last>>
CasedRuns == {
    <<65, 90>>, <<97, 122>>, <<170, 170>>, <<181, 181>>, <<186, 186>>,
    <<192, 214>>, <<216, 246>>, <<248, 442>>, <<444, 447>>, <<452, 659>>,
    <<661, 687>>, <<880, 883>>, <<886, 887>>, <<891, 893>>, <<895, 895>>,
    <<902, 902>>, <<904, 906>>, <<908, 908>>, <<910, 929>>, <<931, 1013>>,
    <<1015, 1153>>, <<1162, 1327>>, <<1329, 1366>>, <<1376, 1416>>,
    <<4256, 4293>>, <<4295, 4295>>, <<4301, 4301>>, <<4304, 4346>>,
    <<4349, 4351>>, <<5024, 5109>>, <<5112, 5117>>, <<7296, 7304>>,
    <<7312, 7354>>, <<7357, 7359>>, <<7424, 7467>>, <<7531, 7543>>,
    <<7545, 7578>>, <<7680, 7957>>, <<7960, 7965>>, <<7968, 8005>>,
    <<8008, 8013>>, <<8016, 8023>>, <<8025, 8025>>, <<8027, 8027>>,
    <<8029, 8029>>, <<8031, 8061>>, <<8064, 8116>>, <<8118, 8124>>,
    <<8126, 8126>>, <<8130, 8132>>, <<8134, 8140>>, <<8144, 8147>>,
    <<8150, 8155>>, <<8160, 8172>>, <<8178, 8180>>, <<8182, 8188>>,
    <<8450, 8450>>, <<8455, 8455>>, <<8458, 8467>>, <<8469, 8469>>,
    <<8473, 8477>>, <<8484, 8484>>, <<8486, 8486>>, <<8488, 8488>>,
    <<8490, 8493>>, <<8495, 8500>>, <<8505, 8505>>, <<8508, 8511>>,
    <<8517, 8521>>, <<8526, 8526>>, <<8544, 8575>>, <<8579, 8580>>,
    <<9398, 9449>>, <<11264, 11387>>, <<11390, 11492>>, <<11499, 11502>>,
    <<11506, 11507>>, <<11520, 11557>>, <<11559, 11559>>, <<11565, 11565>>,
    <<42560, 42605>>, <<42624, 42651>>, <<42786, 42863>>, <<42865, 42887>>,
    <<42891, 42894>>, <<42896, 42954>>, <<42960, 42961>>, <<42963, 42963>>,
    <<42965, 42969>>, <<42997, 42998>>, <<43002, 43002>>, <<43824, 43866>>,
    <<43872, 43880>>, <<43888, 43967>>, <<64256, 64262>>, <<64275, 64279>>,
    <<65313, 65338>>, <<65345, 65370>>, <<66560, 66639>>, <<66736, 66771>>,
    <<66776, 66811>>, <<66928, 66938>>, <<66940, 66954>>, <<66956, 66962>>,
    <<66964, 66965>>, <<66967, 66977>>, <<66979, 66993>>, <<66995, 67001>>,
    <<67003, 67004>>, <<68736, 68786>>, <<68800, 68850>>, <<71840, 71903>>,
    <<93760, 93823>>, <<119808, 119892>>, <<119894, 119964>>,
    <<119966, 119967>>, <<119970, 119970>>, <<119973, 119974>>,
    <<119977, 119980>>, <<119982, 119993>>, <<119995, 119995>>,
    <<119997, 120003>>, <<120005, 120069>>, <<120071, 120074>>,
    <<120077, 120084>>, <<120086, 120092>>, <<120094, 120121>>,
    <<120123, 120126>>, <<120128, 120132>>, <<120134, 120134>>,
    <<120138, 120144>>, <<120146, 120485>>, <<120488, 120512>>,
    <<120514, 120538>>, <<120540, 120570>>, <<120572, 120596>>,
    <<120598, 120628>>, <<120630, 120654>>, <<120656, 120686>>,
    <<120688, 120712>>, <<120714, 120744>>, <<120746, 120770>>,
    <<120772, 120779>>, <<122624, 122633>>, <<122635, 122654>>,
    <<125184, 125251>>, <<127280, 127305>>, <<127312, 127337>>,
    <<127344, 127369>>}

\* the case-ignorable characters, as runs <<first, last>>
CaseIgnorableRuns == {
    <<39, 39>>, <<46, 46>>, <<58, 58>>, <<94, 94>>, <<96, 96>>,
    <<168, 168>>, <<173, 173>>, <<175, 175>>, <<180, 180>>, <<183, 184>>,
    <<688, 879>>, <<884, 885>>, <<890, 890>>, <<900, 901>>, <<903, 903>>,
    <<1155, 1161>>, <<1369, 1369>>, <<1375, 1375>>, <<1425, 1469>>,
    <<1471, 1471>>, <<1473, 1474>>, <<1476, 1477>>, <<1479, 1479>>,
    <<1524, 1524>>, <<1536, 1541>>, <<1552, 1562>>, <<1564, 1564>>,
    <<1600, 1600>>, <<1611, 1631>>, <<1648, 1648>>, <<1750, 1757>>,
    <<1759, 1768>>, <<1770, 1773>>, <<1807, 1807>>, <<1809, 1809>>,
    <<1840, 1866>>, <<1958, 1968>>, <<2027, 2037>>, <<2042, 2042>>,
    <<2045, 2045>>, <<2070, 2093>>, <<2137, 2139>>, <<2184, 2184>>,
    <<2192, 2193>>, <<2200, 2207>>, <<2249, 2306>>, <<2362, 2362>>,
    <<2364, 2364>>, <<2369, 2376>>, <<2381, 2381>>, <<2385, 2391>>,
    <<2402, 2403>>, <<2417, 2417>>, <<2433, 2433>>, <<2492, 2492>>,
    <<2497, 2500>>, <<2509, 2509>>, <<2530, 2531>>, <<2558, 2558>>,
    <<2561, 2562>>, <<2620, 2620>>, <<2625, 2626>>, <<2631, 2632>>,
    <<2635, 2637>>, <<2641, 2641>>, <<2672, 2673>>, <<2677, 2677>>,
    <<2689, 2690>>, <<2748, 2748>>, <<2753, 2757>>, <<2759, 2760>>,
    <<2765, 2765>>, <<2786, 2787>>, <<2810, 2815>>, <<2817, 2817>>,
    <<2876, 2876>>, <<2879, 2879>>, <<2881, 2884>>, <<2893, 2893>>,
    <<2901, 2902>>, <<2914, 2915>>, <<2946, 2946>>, <<3008, 3008>>,
    <<3021, 3021>>, <<3072, 3072>>, <<3076, 3076>>, <<3132, 3132>>,
    <<3134, 3136>>, <<3142, 3144>>, <<3146, 3149>>, <<3157, 3158>>,
    <<3170, 3171>>, <<3201, 3201>>, <<3260, 3260>>, <<3263, 3263>>,
    <<3270, 3270>>, <<3276, 3277>>, <<3298, 3299>>, <<3328, 3329>>,
    <<3387, 3388>>, <<3393, 3396>>, <<3405, 3405>>, <<3426, 3427>>,
    <<3457, 3457>>, <<3530, 3530>>, <<3538, 3540>>, <<3542, 3542>>,
    <<3633, 3633>>, <<3636, 3642>>, <<3654, 3662>>, <<3761, 3761>>,
    <<3764, 3772>>, <<3782, 3782>>, <<3784, 3789>>, <<3864, 3865>>,
    <<3893, 3893>>, <<3895, 3895>>, <<3897, 3897>>, <<3953, 3966>>,
    <<3968, 3972>>, <<3974, 3975>>, <<3981, 3991>>, <<3993, 4028>>,
    <<4038, 4038>>, <<4141, 4144>>, <<4146, 4151>>, <<4153, 4154>>,
    <<4157, 4158>>, <<4184, 4185>>, <<4190, 4192>>, <<4209, 4212>>,
    <<4226, 4226>>, <<4229, 4230>>, <<4237, 4237>>, <<4253, 4253>>,
    <<4348, 4348>>, <<4957, 4959>>, <<5906, 5908>>, <<5938, 5939>>,
    <<5970, 5971>>, <<6002, 6003>>, <<6068, 6069>>, <<6071, 6077>>,
    <<6086, 6086>>, <<6089, 6099>>, <<6103, 6103>>, <<6109, 6109>>,
    <<6155, 6159>>, <<6211, 6211>>, <<6277, 6278>>, <<6313, 6313>>,
    <<6432, 6434>>, <<6439, 6440>>, <<6450, 6450>>, <<6457, 6459>>,
    <<6679, 6680>>, <<6683, 6683>>, <<6742, 6742>>, <<6744, 6750>>,
    <<6752, 6752>>, <<6754, 6754>>, <<6757, 6764>>, <<6771, 6780>>,
    <<6783, 6783>>, <<6823, 6823>>, <<6832, 6862>>, <<6912, 6915>>,
    <<6964, 6964>>, <<6966, 6970>>, <<6972, 6972>>, <<6978, 6978>>,
    <<7019, 7027>>, <<7040, 7041>>, <<7074, 7077>>, <<7080, 7081>>,
    <<7083, 7085>>, <<7142, 7142>>, <<7144, 7145>>, <<7149, 7149>>,
    <<7151, 7153>>, <<7212, 7219>>, <<7222, 7223>>, <<7288, 7293>>,
    <<7376, 7378>>, <<7380, 7392>>, <<7394, 7400>>, <<7405, 7405>>,
    <<7412, 7412>>, <<7416, 7417>>, <<7468, 7530>>, <<7544, 7544>>,
    <<7579, 7679>>, <<8125, 8125>>, <<8127, 8129>>, <<8141, 8143>>,
    <<8157, 8159>>, <<8173, 8175>>, <<8189, 8190>>, <<8203, 8207>>,
    <<8216, 8217>>, <<8228, 8228>>, <<8231, 8231>>, <<8234, 8238>>,
    <<8288, 8292>>, <<8294, 8303>>, <<8305, 8305>>, <<8319, 8319>>,
    <<8336, 8348>>, <<8400, 8432>>, <<11388, 11389>>, <<11503, 11505>>,
    <<11631, 11631>>, <<11647, 11647>>, <<11744, 11775>>, <<11823, 11823>>,
    <<12293, 12293>>, <<12330, 12333>>, <<12337, 12341>>, <<12347, 12347>>,
    <<12441, 12446>>, <<12540, 12542>>, <<40981, 40981>>, <<42232, 42237>>,
    <<42508, 42508>>, <<42607, 42610>>, <<42612, 42621>>, <<42623, 42623>>,
    <<42652, 42655>>, <<42736, 42737>>, <<42752, 42785>>, <<42864, 42864>>,
    <<42888, 42890>>, <<42994, 42996>>, <<43000, 43001>>, <<43010, 43010>>,
    <<43014, 43014>>, <<43019, 43019>>, <<43045, 43046>>, <<43052, 43052>>,
    <<43204, 43205>>, <<43232, 43249>>, <<43263, 43263>>, <<43302, 43309>>,
    <<43335, 43345>>, <<43392, 43394>>, <<43443, 43443>>, <<43446, 43449>>,
    <<43452, 43453>>, <<43471, 43471>>, <<43493, 43494>>, <<43561, 43566>>,
    <<43569, 43570>>, <<43573, 43574>>, <<43587, 43587>>, <<43596, 43596>>,
    <<43632, 43632>>, <<43644, 43644>>, <<43696, 43696>>, <<43698, 43700>>,
    <<43703, 43704>>, <<43710, 43711>>, <<43713, 43713>>, <<43741, 43741>>,
    <<43756, 43757>>, <<43763, 43764>>, <<43766, 43766>>, <<43867, 43871>>,
    <<43881, 43883>>, <<44005, 44005>>, <<44008, 44008>>, <<44013, 44013>>,
    <<64286, 64286>>, <<64434, 64450>>, <<65024, 65039>>, <<65043, 65043>>,
    <<65056, 65071>>, <<65106, 65106>>, <<65109, 65109>>, <<65279, 65279>>,
    <<65287, 65287>>, <<65294, 65294>>, <<65306, 65306>>, <<65342, 65342>>,
    <<65344, 65344>>, <<65392, 65392>>, <<65438, 65439>>, <<65507, 65507>>,
    <<65529, 65531>>, <<66045, 66045>>, <<66272, 66272>>, <<66422, 66426>>,
    <<67456, 67461>>, <<67463, 67504>>, <<67506, 67514>>, <<68097, 68099>>,
    <<68101, 68102>>, <<68108, 68111>>, <<68152, 68154>>, <<68159, 68159>>,
    <<68325, 68326>>, <<68900, 68903>>, <<69291, 69292>>, <<69446, 69456>>,
    <<69506, 69509>>, <<69633, 69633>>, <<69688, 69702>>, <<69744, 69744>>,
    <<69747, 69748>>, <<69759, 69761>>, <<69811, 69814>>, <<69817, 69818>>,
    <<69821, 69821>>, <<69826, 69826>>, <<69837, 69837>>, <<69888, 69890>>,
    <<69927, 69931>>, <<69933, 69940>>, <<70003, 70003>>, <<70016, 70017>>,
    <<70070, 70078>>, <<70089, 70092>>, <<70095, 70095>>, <<70191, 70193>>,
    <<70196, 70196>>, <<70198, 70199>>, <<70206, 70206>>, <<70367, 70367>>,
    <<70371, 70378>>, <<70400, 70401>>, <<70459, 70460>>, <<70464, 70464>>,
    <<70502, 70508>>, <<70512, 70516>>, <<70712, 70719>>, <<70722, 70724>>,
    <<70726, 70726>>, <<70750, 70750>>, <<70835, 70840>>, <<70842, 70842>>,
    <<70847, 70848>>, <<70850, 70851>>, <<71090, 71093>>, <<71100, 71101>>,
    <<71103, 71104>>, <<71132, 71133>>, <<71219, 71226>>, <<71229, 71229>>,
    <<71231, 71232>>, <<71339, 71339>>, <<71341, 71341>>, <<71344, 71349>>,
    <<71351, 71351>>, <<71453, 71455>>, <<71458, 71461>>, <<71463, 71467>>,
    <<71727, 71735>>, <<71737, 71738>>, <<71995, 71996>>, <<71998, 71998>>,
    <<72003, 72003>>, <<72148, 72151>>, <<72154, 72155>>, <<72160, 72160>>,
    <<72193, 72202>>, <<72243, 72248>>, <<72251, 72254>>, <<72263, 72263>>,
    <<72273, 72278>>, <<72281, 72283>>, <<72330, 72342>>, <<72344, 72345>>,
    <<72752, 72758>>, <<72760, 72765>>, <<72767, 72767>>, <<72850, 72871>>,
    <<72874, 72880>>, <<72882, 72883>>, <<72885, 72886>>, <<73009, 73014>>,
    <<73018, 73018>>, <<73020, 73021>>, <<73023, 73029>>, <<73031, 73031>>,
    <<73104, 73105>>, <<73109, 73109>>, <<73111, 73111>>, <<73459, 73460>>,
    <<78896, 78904>>, <<92912, 92916>>, <<92976, 92982>>, <<92992, 92995>>,
    <<94031, 94031>>, <<94095, 94111>>, <<94176, 94177>>, <<94179, 94180>>,
    <<110576, 110579>>, <<110581, 110587>>, <<110589, 110590>>,
    <<113821, 113822>>, <<113824, 113827>>, <<118528, 118573>>,
    <<118576, 118598>>, <<119143, 119145>>, <<119155, 119170>>,
    <<119173, 119179>>, <<119210, 119213>>, <<119362, 119364>>,
    <<121344, 121398>>, <<121403, 121452>>, <<121461, 121461>>,
    <<121476, 121476>>, <<121499, 121503>>, <<121505, 121519>>,
    <<122880, 122886>>, <<122888, 122904>>, <<122907, 122913>>,
    <<122915, 122916>>, <<122918, 122922>>, <<123184, 123197>>,
    <<123566, 123566>>, <<123628, 123631>>, <<125136, 125142>>,
    <<125252, 125259>>, <<127995, 127999>>, <<917505, 917505>>,
    <<917536, 917631>>, <<917760, 917999>>}

Cased == UNION {{Char(n) : n \in r[1]..r[2]} : r \in CasedRuns}

CaseIgnorable == UNION {{Char(n) : n \in r[1]..r[2]} : r \in CaseIgnorableRuns}

\* capital sigma and the final small sigma
CapitalSigma == Char(931)

FinalSmallSigma == Char(962)

\* a capital sigma is final when a cased character precedes it and none
\* follows it, case-ignorable characters skipped on both sides
FinalSigma(chars, i) ==
    /\ \E j \in 1..(i - 1) :
          /\ chars[j] \in Cased
          /\ \A k \in (j + 1)..(i - 1) : chars[k] \in CaseIgnorable
    /\ ~\E j \in (i + 1)..Len(chars) :
          /\ chars[j] \in Cased
          /\ \A k \in (i + 1)..(j - 1) : chars[k] \in CaseIgnorable

\* a comparison that forgets .lower()
lower_missing(chars) == chars

RECURSIVE LowerFrom(_, _)
\* the lowercase of the characters from position i on
LowerFrom(chars, i) ==
    IF i > Len(chars) THEN <<>>
    ELSE (IF chars[i] = CapitalSigma /\ FinalSigma(chars, i)
          THEN <<FinalSmallSigma>>
          ELSE LowerChar(chars[i])) \o LowerFrom(chars, i + 1)

\* str.lower()
lower(chars) == LowerFrom(chars, 1)

RECURSIVE lstrip(_), rstrip(_)
lstrip(chars) ==
    IF chars # <<>> /\ Head(chars) \in Whitespace THEN lstrip(Tail(chars))
    ELSE chars

rstrip(chars) ==
    IF chars # <<>> /\ chars[Len(chars)] \in Whitespace
    THEN rstrip(SubSeq(chars, 1, Len(chars) - 1))
    ELSE chars

\* a read that forgets .strip()
strip_missing(chars) == chars

\* str.strip()
strip(chars) == rstrip(lstrip(chars))

RECURSIVE Text(_)
\* the string made of the characters
Text(chars) == IF chars = <<>> THEN "" ELSE Head(chars) \o Text(Tail(chars))

ExitCommands == {"quit", "exit", "bye", "q"}

IsExit(user_input) == Text(lower(user_input)) \in ExitCommands

-----------------------------------------------------------------------------
(* ollama-example.py: Messages *)

UserMessage(content) == [role |-> "user", content |-> content]

AssistantMessage(content) == [role |-> "assistant", content |-> content]

\* assistant_message.model_dump(): the Message with its invocation requests
ModelDump(message) ==
    [role |-> "assistant", content |-> message.content,
     tool_calls |-> message.tool_calls]

\* a tool Message correlated with the first request of the round
ToolMessageFirstId(result, tool_call) ==
    [role |-> "tool", content |-> result, tool_call_id |-> tool_calls[1].id,
     name |-> tool_call.function.name]

ToolMessage(result, tool_call) ==
    [role |-> "tool", content |-> result, tool_call_id |-> tool_call.id,
     name |-> tool_call.function.name]

\* an invocation request as the completion client returns it
ToolCall(id, name, arguments) ==
    [id |-> id, type |-> "function",
     function |-> [name |-> name, arguments |-> arguments]]

-----------------------------------------------------------------------------
(* The console and the completion client *)

InputLines ==
    {<<"q", "u", "i", "t">>, <<"\f", "Q", "u", "I", "t", "<U+00A0>">>,
     <<"<U+000B>", "E", "X", "I", "T">>, <<"b", "y", "e", "<U+001F>">>,
     <<"Q", "<U+0085>">>,
     <<>>, <<" ", "\f", "<U+2028>">>,
     <<" ", "Q", "u", "i", "t", "e", " ">>}

ArgsAdd ==
    <<Tok("{"), StrTok("name"), Tok(":"), StrTok("shopping"), Tok(","),
      StrTok("description"), Tok(":"), StrTok("buy groceries"), Tok("}")>>
ArgsName == <<Tok("{"), StrTok("name"), Tok(":"), StrTok("shopping"), Tok("}")>>
ArgsEmpty == <<Tok("{"), Tok("}")>>
ArgsTruncated == <<Tok("{"), StrTok("name"), Tok(":")>>

\* the requests the model may make: function name and argument text
Requests ==
    {<<"add_task", ArgsAdd>>, <<"has_task", ArgsName>>,
     <<"mark_task_done", ArgsEmpty>>, <<"has_task", ArgsTruncated>>}

RequestLists(n) == UNION {[1..m -> Requests] : m \in 1..n}

\* the requests with the ids the completion client gives them
Numbered(reqs) ==
    [i \in 1..Len(reqs) |->
        ToolCall("call_" \o ToString(i), reqs[i][1], reqs[i][2])]

Message(content, calls_) == [content |-> content, tool_calls |-> calls_]

\* the Messages a first completion may return when the model has n requests
\* left to make, and the Messages a follow-up completion may return
FirstCompletions(n) ==
    {Message("Hello!", <<>>)}
    \cup {Message("", Numbered(reqs)) : reqs \in RequestLists(n)}

FollowUps ==
    {Message("Done.", <<>>),
     Message("", Numbered(<<<<"add_task", ArgsAdd>>>>))}

-----------------------------------------------------------------------------
(* ollama-example.py: chat_with_ollama *)

Init ==
    /\ pc = "AwaitingInput"
    /\ conversation_history = <<>>
    /\ tasks = <<>>
    /\ tool_calls = <<>>
    /\ idx = 0
    /\ sent = <<>>
    /\ base = NoSnapshot
    /\ event = "start"
    /\ calls = 0
    /\ execs = 0
    /\ turns = 0
    /\ requested = 0
    /\ outcome = Idle
    /\ log = NoLog
    /\ main = NotStarted

\* the state in which input() was called and the line it returned
Snapshot(line) ==
    [history |-> conversation_history, tasks |-> tasks, calls |-> calls,
     execs |-> execs, line |-> line]

\* input() returns line and the stripped text is an exit command
ExitCommand ==
    /\ pc = "AwaitingInput"
    /\ \E line \in InputLines :
        /\ IsExit(strip(line))
        /\ base' = Snapshot(line)
    /\ pc' = "Terminated"
    /\ event' = "exit"
    /\ UNCHANGED <<conversation_history, tasks, tool_calls, idx, sent, calls,
                   execs, turns, requested, outcome, log, main>>

\* input() returns line and the stripped text is empty
EmptyInput ==
    /\ pc = "AwaitingInput"
    /\ \E line \in InputLines :
        /\ ~IsExit(strip(line))
        /\ strip(line) = <<>>
        /\ base' = Snapshot(line)
    /\ pc' = "AwaitingInput"
    /\ event' = "empty"
    /\ UNCHANGED <<conversation_history, tasks, tool_calls, idx, sent, calls,
                   execs, turns, requested, outcome, log, main>>

\* input() returns line: the user Message is appended and completion is called
UserTurn ==
    /\ pc = "AwaitingInput"
    /\ turns < MaxTurns
    /\ \E line \in InputLines :
        /\ ~IsExit(strip(line))
        /\ strip(line) # <<>>
        /\ conversation_history' =
             Append(conversation_history, UserMessage(Text(strip(line))))
        /\ base' = Snapshot(line)
    /\ sent' = conversation_history'
    /\ calls' = calls + 1
    /\ turns' = turns + 1
    /\ pc' = "RequestingCompletion"
    /\ event' = "user"
    /\ UNCHANGED <<tasks, tool_calls, idx, execs, requested, outcome, log, main>>

\* an interruption of input() that is treated like an empty line
InterruptInputIgnored ==
    /\ pc = "AwaitingInput"
    /\ pc' = "AwaitingInput"
    /\ event' = "interrupt"
    /\ base' = Snapshot(<<>>)
    /\ UNCHANGED <<conversation_history, tasks, tool_calls, idx, sent, calls,
                   execs, turns, requested, outcome, log, main>>

\* KeyboardInterrupt is raised in input(), or after it returned and before
\* the user Message is appended: a line that was read is dropped
InterruptInput ==
    /\ pc = "AwaitingInput"
    /\ pc' = "Terminated"
    /\ event' = "interrupt"
    /\ base' = Snapshot(<<>>)
    /\ UNCHANGED <<conversation_history, tasks, tool_calls, idx, sent, calls,
                   execs, turns, requested, outcome, log, main>>

\* a direct reply that falls through to a second completion call
DirectReplyAgain ==
    /\ pc = "RequestingCompletion"
    /\ \E message \in FirstCompletions(MaxRequests - requested) :
        /\ message.tool_calls = <<>>
        /\ conversation_history' =
             Append(conversation_history, AssistantMessage(message.content))
    /\ calls' = calls + 1
    /\ pc' = "AwaitingInput"
    /\ event' = "reply"
    /\ UNCHANGED <<tasks, tool_calls, idx, sent, base, execs, turns,
                   requested, outcome, log, main>>

\* the first completion returns a Message without invocation requests
DirectReply ==
    /\ pc = "RequestingCompletion"
    /\ \E message \in FirstCompletions(MaxRequests - requested) :
        /\ message.tool_calls = <<>>
        /\ conversation_history' =
             Append(conversation_history, AssistantMessage(message.content))
    /\ pc' = "AwaitingInput"
    /\ event' = "reply"
    /\ UNCHANGED <<tasks, tool_calls, idx, sent, base, calls, execs, turns,
                   requested, outcome, log, main>>

\* the first completion returns a Message with invocation requests
BeginToolRound ==
    /\ pc = "RequestingCompletion"
    /\ \E message \in FirstCompletions(MaxRequests - requested) :
        /\ message.tool_calls # <<>>
        /\ conversation_history' =
             Append(conversation_history, ModelDump(message))
        /\ tool_calls' = message.tool_calls
        /\ requested' = requested + Len(message.tool_calls)
    /\ idx' = 1
    /\ pc' = "ToolCallingRound"
    /\ event' = "round"
    /\ UNCHANGED <<tasks, sent, base, calls, execs, turns, outcome, log, main>>

\* a handler that leaves the loop
ErrorHandlerFatal(cause) ==
    /\ pc' = "Terminated"
    /\ event' = cause

\* except Exception: the error is printed and the loop continues
ErrorHandler(cause) ==
    /\ pc' = "AwaitingInput"
    /\ event' = cause

\* a failure that takes the user Message of the turn back
CompletionFailsRollback ==
    /\ pc = "RequestingCompletion"
    /\ ErrorHandler("completion_failed")
    /\ conversation_history' = base.history
    /\ UNCHANGED <<tasks, tool_calls, idx, sent, base, calls, execs, turns,
                   requested, outcome, log, main>>

\* the first completion call raises
CompletionFails ==
    /\ pc = "RequestingCompletion"
    /\ ErrorHandler("completion_failed")
    /\ UNCHANGED <<conversation_history, tasks, tool_calls, idx, sent, base,
                   calls, execs, turns, requested, outcome, log, main>>

\* a for loop that is left after its first iteration
RoundDoneEarly(i) == i >= 1

\* the for loop over the invocation requests ends after the i-th iteration
RoundDone(i) == i = Len(tool_calls)

\* one iteration of the for loop over the invocation requests; after the
\* last one the follow-up completion is called
ExecuteToolCall ==
    /\ pc = "ToolCallingRound"
    /\ LET tool_call == tool_calls[idx]
           function_name == tool_call.function.name
           arguments == json_loads(tool_call.function.arguments)
           r == execute_tool_call(function_name, arguments.val, tasks)
       IN IF ~arguments.ok
          THEN /\ ErrorHandler("decode_failed")
               /\ UNCHANGED <<conversation_history, tasks, idx, sent, calls,
                              execs, outcome, log, main>>
          ELSE /\ execs' = execs + 1
               /\ tasks' = r.tasks
               /\ outcome' = Dispatched(function_name, arguments.val, r, tasks)
               /\ log' = Logged(function_name, arguments.val, tasks, log)
               /\ IF r.raised
                  THEN /\ ErrorHandler("dispatch_raised")
                       /\ UNCHANGED <<conversation_history, idx, sent, calls>>
                  ELSE /\ conversation_history' =
                            Append(conversation_history,
                                   ToolMessage(r.result, tool_call))
                       /\ idx' = idx + 1
                       /\ event' = "tool"
                       /\ IF RoundDone(idx)
                          THEN /\ pc' = "FollowUp"
                               /\ sent' = conversation_history'
                               /\ calls' = calls + 1
                          ELSE /\ pc' = "ToolCallingRound"
                               /\ UNCHANGED <<sent, calls>>
    /\ UNCHANGED <<tool_calls, base, turns, requested, main>>

\* a follow-up whose text is displayed but not appended
FollowUpReturnsUnrecorded ==
    /\ pc = "FollowUp"
    /\ pc' = "AwaitingInput"
    /\ event' = "final"
    /\ UNCHANGED <<conversation_history, tasks, tool_calls, idx, sent, base,
                   calls, execs, turns, requested, outcome, log, main>>

\* a follow-up whose invocation requests are kept in the appended Message
FollowUpReturnsDumped ==
    /\ pc = "FollowUp"
    /\ \E message \in FollowUps :
        conversation_history' =
            Append(conversation_history,
                   IF message.tool_calls = <<>>
                   THEN AssistantMessage(message.content)
                   ELSE ModelDump(message))
    /\ pc' = "AwaitingInput"
    /\ event' = "final"
    /\ UNCHANGED <<tasks, tool_calls, idx, sent, base, calls, execs, turns,
                   requested, outcome, log, main>>

\* the follow-up completion returns: only its text is appended
FollowUpReturns ==
    /\ pc = "FollowUp"
    /\ \E message \in FollowUps :
        conversation_history' =
            Append(conversation_history, AssistantMessage(message.content))
    /\ pc' = "AwaitingInput"
    /\ event' = "final"
    /\ UNCHANGED <<tasks, tool_calls, idx, sent, base, calls, execs, turns,
                   requested, outcome, log, main>>

\* a failure of the follow-up that drops the Messages of the round
FollowUpFailsRollback ==
    /\ pc = "FollowUp"
    /\ ErrorHandler("followup_failed")
    /\ conversation_history' =
         SubSeq(conversation_history, 1, Len(base.history) + 1)
    /\ UNCHANGED <<tasks, tool_calls, idx, sent, base, calls, execs, turns,
                   requested, outcome, log, main>>

\* the follow-up completion call raises
FollowUpFails ==
    /\ pc = "FollowUp"
    /\ ErrorHandler("followup_failed")
    /\ UNCHANGED <<conversation_history, tasks, tool_calls, idx, sent, base,
                   calls, execs, turns, requested, outcome, log, main>>

\* an interruption of a started turn that is handled like a failure
InterruptTurnSwallowed ==
    /\ pc \in {"RequestingCompletion", "ToolCallingRound", "FollowUp"}
    /\ pc' = "AwaitingInput"
    /\ event' = "interrupt_turn"
    /\ UNCHANGED <<conversation_history, tasks, tool_calls, idx, sent, base,
                   calls, execs, turns, requested, outcome, log, main>>

\* KeyboardInterrupt is raised inside the try block after the input was read
InterruptTurn ==
    /\ pc \in {"RequestingCompletion", "ToolCallingRound", "FollowUp"}
    /\ pc' = "Terminated"
    /\ event' = "interrupt_turn"
    /\ UNCHANGED <<conversation_history, tasks, tool_calls, idx, sent, base,
                   calls, execs, turns, requested, outcome, log, main>>

\* KeyboardInterrupt is raised after the user Message was appended and before
\* the completion call is issued
InterruptBeforeCompletion ==
    /\ pc = "AwaitingInput"
    /\ turns < MaxTurns
    /\ \E line \in InputLines :
        /\ ~IsExit(strip(line))
        /\ strip(line) # <<>>
        /\ conversation_history' =
             Append(conversation_history, UserMessage(Text(strip(line))))
        /\ base' = Snapshot(line)
    /\ turns' = turns + 1
    /\ pc' = "Terminated"
    /\ event' = "interrupt_turn"
    /\ UNCHANGED <<tasks, tool_calls, idx, sent, calls, execs, requested,
                   outcome, log, main>>

\* KeyboardInterrupt is raised inside an iteration of the for loop after
\* execute_tool_call was entered: inside the call, before or after the tool
\* touched the store, or after it returned and before the tool Message is
\* appended, or, in the last iteration, after the append and before the
\* follow-up call is issued
InterruptIteration ==
    /\ pc = "ToolCallingRound"
    /\ LET tool_call == tool_calls[idx]
           function_name == tool_call.function.name
           arguments == json_loads(tool_call.function.arguments)
           r == execute_tool_call(function_name, arguments.val, tasks)
       IN /\ arguments.ok
          /\ execs' = execs + 1
          /\ \/ /\ outcome' = Interrupted(function_name, arguments.val, tasks)
                /\ \/ UNCHANGED <<tasks, log>>
                   \/ /\ tasks' = r.tasks
                      /\ log' = Logged(function_name, arguments.val, tasks, log)
                /\ UNCHANGED <<conversation_history, idx>>
             \/ /\ ~r.raised
                /\ tasks' = r.tasks
                /\ outcome' = Dispatched(function_name, arguments.val, r, tasks)
                /\ log' = Logged(function_name, arguments.val, tasks, log)
                /\ \/ UNCHANGED <<conversation_history, idx>>
                   \/ /\ RoundDone(idx)
                      /\ conversation_history' =
                           Append(conversation_history,
                                  ToolMessage(r.result, tool_call))
                      /\ idx' = idx + 1
    /\ pc' = "Terminated"
    /\ event' = "interrupt_turn"
    /\ UNCHANGED <<tool_calls, sent, base, calls, turns, requested, main>>

\* the steps that call chat_with_ollama: the call of the function alone, and
\* in main the return of True by validate_connection and the confirmation
EntryEvents ==
    {"start", "confirmed", "probe_tools_failed", "probe_no_calls",
     "probe_decode_failed", "probe_dispatch_raised", "probe_done"}

\* the steps that end in the body of except Exception
HandlerEvents ==
    {"completion_failed", "followup_failed", "decode_failed",
     "dispatch_raised"}

\* the steps that end an iteration of the while loop in its try body
IterationEvents == {"reply", "final", "empty"}

\* KeyboardInterrupt is raised outside the try block: the exception leaves
\* chat_with_ollama and nothing above it catches it
Uncaught(cause) ==
    /\ pc' = "Aborted"
    /\ event' = cause
    /\ UNCHANGED <<conversation_history, tasks, tool_calls, idx, sent, base,
                   calls, execs, turns, requested, outcome, log, main>>

\* KeyboardInterrupt is raised while the banner is printed, before the loop
InterruptBanner ==
    /\ pc = "AwaitingInput"
    /\ event \in EntryEvents
    /\ Uncaught("interrupt_banner")

\* KeyboardInterrupt is raised while the body of except Exception prints
InterruptHandler ==
    /\ pc = "AwaitingInput"
    /\ event \in HandlerEvents
    /\ Uncaught("interrupt_handler")

\* KeyboardInterrupt is raised at the jump back to the top of the while loop,
\* after the try statement of the iteration was left
InterruptBackEdge ==
    /\ pc = "AwaitingInput"
    /\ event \in IterationEvents
    /\ Uncaught("interrupt_back_edge")

\* KeyboardInterrupt is raised after the loop was left: while the body of
\* except KeyboardInterrupt prints, or after the break
InterruptAfterLoop ==
    /\ pc = "Terminated"
    /\ Uncaught("interrupt_after_loop")

Next ==
    \/ ExitCommand
    \/ EmptyInput
    \/ UserTurn
    \/ InterruptInput
    \/ DirectReply
    \/ BeginToolRound
    \/ CompletionFails
    \/ ExecuteToolCall
    \/ FollowUpReturns
    \/ FollowUpFails
    \/ InterruptTurn
    \/ InterruptBeforeCompletion
    \/ InterruptIteration
    \/ InterruptBanner
    \/ InterruptHandler
    \/ InterruptBackEdge
    \/ InterruptAfterLoop

Spec == Init /\ [][Next]_vars

-----------------------------------------------------------------------------
(* ollama-example.py: main and validate_connection *)

\* the lines the operator may answer the continue-anyway question with
ConfirmLines ==
    {<<"y">>, <<"y", "e", "s">>, <<" ", "Y", " ">>, <<"Y", "E", "S", "\t">>,
     <<"<U+3000>", "Y", "e", "S", "<U+2028>">>,
     <<"n">>, <<>>, <<"y", "e", "a", "h">>, <<"y", " ", "e", "s">>,
     <<"Y", "E", "S", "<U+0130>">>}

\* response not in ['y', 'yes'] is false
Accepts(response) == Text(response) \in {"y", "yes"}

ValidateName == Str("validate")
ValidateDescription == Str("Tool calling validation test")

MainInit ==
    /\ pc = "Main"
    /\ conversation_history = <<>>
    /\ tasks = <<>>
    /\ tool_calls = <<>>
    /\ idx = 0
    /\ sent = <<>>
    /\ base = NoSnapshot
    /\ event = "start"
    /\ calls = 0
    /\ execs = 0
    /\ turns = 0
    /\ requested = 0
    /\ outcome = Idle
    /\ log = NoLog
    /\ main = NotStarted

\* main calls validate_connection, which issues its first completion call;
\* the probe counts as one of the MaxTurns exchanges of a run
StartProbe ==
    /\ pc = "Main"
    /\ turns < MaxTurns
    /\ pc' = "Probe"
    /\ sent' = <<UserMessage("Say hello!")>>
    /\ calls' = calls + 1
    /\ turns' = turns + 1
    /\ event' = "probe"
    /\ UNCHANGED <<conversation_history, tasks, tool_calls, idx, base, execs,
                   requested, outcome, log, main>>

\* the first completion call raises: validate_connection returns False
ProbeFails ==
    /\ pc = "Probe"
    /\ pc' = "Confirm"
    /\ main' = [main EXCEPT !.probe = "failed"]
    /\ event' = "probe_failed"
    /\ UNCHANGED <<conversation_history, tasks, tool_calls, idx, sent, base,
                   calls, execs, turns, requested, outcome, log>>

\* a probe that goes to the tool exercise without seeding the validate task
ProbeConnectsUnseeded ==
    /\ pc = "Probe"
    /\ sent' = <<UserMessage("Please add a task called 'test' with "
                   \o "description 'Tool calling test' and then check if "
                   \o "task 'validate' exists.")>>
    /\ calls' = calls + 1
    /\ pc' = "ProbeTools"
    /\ event' = "probe_connected"
    /\ UNCHANGED <<conversation_history, tasks, tool_calls, idx, base, execs,
                   turns, requested, outcome, log, main>>

\* the first completion call returns: the validate task is added directly
\* and the completion call with the tool schema is issued
ProbeConnects ==
    /\ pc = "Probe"
    /\ tasks' = add_task(ValidateName, ValidateDescription, tasks).tasks
    /\ log' = Logged("add_task",
                     Dict(<<NamePair(ValidateName),
                            DescriptionPair(ValidateDescription)>>),
                     tasks, log)
    /\ sent' = <<UserMessage("Please add a task called 'test' with "
                   \o "description 'Tool calling test' and then check if "
                   \o "task 'validate' exists.")>>
    /\ calls' = calls + 1
    /\ pc' = "ProbeTools"
    /\ event' = "probe_connected"
    /\ UNCHANGED <<conversation_history, tool_calls, idx, base, execs, turns,
                   requested, outcome, main>>

\* return True: main goes on to call chat_with_ollama
ReturnTrue(cause) ==
    /\ pc' = "AwaitingInput"
    /\ main' = [main EXCEPT !.probe = "passed"]
    /\ event' = cause

\* a failure of the tool exercise that makes validate_connection return False
ToolProbeFailsReturnsFalse ==
    /\ pc = "ProbeTools"
    /\ pc' = "Confirm"
    /\ main' = [main EXCEPT !.probe = "failed"]
    /\ event' = "probe_tools_failed"
    /\ UNCHANGED <<conversation_history, tasks, tool_calls, idx, sent, base,
                   calls, execs, turns, requested, outcome, log>>

\* the completion call with the tool schema raises: caught, return True
ToolProbeFails ==
    /\ pc = "ProbeTools"
    /\ ReturnTrue("probe_tools_failed")
    /\ UNCHANGED <<conversation_history, tasks, tool_calls, idx, sent, base,
                   calls, execs, turns, requested, outcome, log>>

\* the completion returns a Message without invocation requests
ToolProbeNoCalls ==
    /\ pc = "ProbeTools"
    /\ \E message \in FirstCompletions(MaxRequests - requested) :
        message.tool_calls = <<>>
    /\ ReturnTrue("probe_no_calls")
    /\ UNCHANGED <<conversation_history, tasks, tool_calls, idx, sent, base,
                   calls, execs, turns, requested, outcome, log>>

\* the completion returns a Message with invocation requests
ToolProbeCalls ==
    /\ pc = "ProbeTools"
    /\ \E message \in FirstCompletions(MaxRequests - requested) :
        /\ message.tool_calls # <<>>
        /\ tool_calls' = message.tool_calls
        /\ requested' = requested + Len(message.tool_calls)
    /\ idx' = 1
    /\ pc' = "ProbeRound"
    /\ event' = "probe_round"
    /\ UNCHANGED <<conversation_history, tasks, sent, base, calls, execs,
                   turns, outcome, log, main>>

\* one iteration of the for loop of validate_connection; an exception in
\* it is caught by the inner handler, and after the last iteration
\* has_task("validate") only chooses the line that is printed
ProbeExecute ==
    /\ pc = "ProbeRound"
    /\ LET tool_call == tool_calls[idx]
           function_name == tool_call.function.name
           arguments == json_loads(tool_call.function.arguments)
           r == execute_tool_call(function_name, arguments.val, tasks)
       IN IF ~arguments.ok
          THEN /\ ReturnTrue("probe_decode_failed")
               /\ tool_calls' = <<>>
               /\ idx' = 0
               /\ UNCHANGED <<tasks, execs, outcome, log>>
          ELSE /\ execs' = execs + 1
               /\ tasks' = r.tasks
               /\ outcome' = Dispatched(function_name, arguments.val, r, tasks)
               /\ log' = Logged(function_name, arguments.val, tasks, log)
               /\ IF r.raised
                  THEN /\ ReturnTrue("probe_dispatch_raised")
                       /\ tool_calls' = <<>>
                       /\ idx' = 0
                  ELSE IF idx = Len(tool_calls)
                  THEN /\ ReturnTrue("probe_done")
                       /\ tool_calls' = <<>>
                       /\ idx' = 0
                  ELSE /\ idx' = idx + 1
                       /\ pc' = "ProbeRound"
                       /\ event' = "probe_tool"
                       /\ UNCHANGED <<tool_calls, main>>
    /\ UNCHANGED <<conversation_history, sent, base, calls, turns, requested>>

\* the operator's answer, stripped and lowered, is y or yes
ConfirmContinue ==
    /\ pc = "Confirm"
    /\ \E line \in ConfirmLines :
        /\ Accepts(lower(strip(line)))
        /\ main' = [main EXCEPT !.answered = TRUE,
                                !.response = lower(strip(line))]
        /\ base' = Snapshot(line)
    /\ pc' = "AwaitingInput"
    /\ event' = "confirmed"
    /\ UNCHANGED <<conversation_history, tasks, tool_calls, idx, sent, calls,
                   execs, turns, requested, outcome, log>>

\* a refusal that prints "Exiting..." and then falls through to the chat
DeclineFallsThrough ==
    /\ pc = "Confirm"
    /\ \E line \in ConfirmLines :
        /\ ~Accepts(lower(strip(line)))
        /\ main' = [main EXCEPT !.answered = TRUE,
                                !.response = lower(strip(line))]
        /\ base' = Snapshot(line)
    /\ pc' = "AwaitingInput"
    /\ event' = "declined"
    /\ UNCHANGED <<conversation_history, tasks, tool_calls, idx, sent, calls,
                   execs, turns, requested, outcome, log>>

\* any other answer: sys.exit(1)
DeclineExit ==
    /\ pc = "Confirm"
    /\ \E line \in ConfirmLines :
        /\ ~Accepts(lower(strip(line)))
        /\ main' = [main EXCEPT !.answered = TRUE,
                                !.response = lower(strip(line)),
                                !.exited = TRUE, !.exit_status = 1]
        /\ base' = Snapshot(line)
    /\ pc' = "Exited"
    /\ event' = "declined"
    /\ UNCHANGED <<conversation_history, tasks, tool_calls, idx, sent, calls,
                   execs, turns, requested, outcome, log>>

\* KeyboardInterrupt before the chat has started: neither validate_connection
\* nor main catches it, and the process ends with a traceback
InterruptMain ==
    /\ pc \in {"Main", "Probe", "ProbeTools", "ProbeRound", "Confirm"}
    /\ Uncaught("interrupt_main")

\* KeyboardInterrupt is raised after the validate task was added and before
\* the completion call with the tool schema is issued
InterruptSeeded ==
    /\ pc = "Probe"
    /\ tasks' = add_task(ValidateName, ValidateDescription, tasks).tasks
    /\ log' = Logged("add_task",
                     Dict(<<NamePair(ValidateName),
                            DescriptionPair(ValidateDescription)>>),
                     tasks, log)
    /\ pc' = "Aborted"
    /\ event' = "interrupt_main"
    /\ UNCHANGED <<conversation_history, tool_calls, idx, sent, base, calls,
                   execs, turns, requested, outcome, main>>

\* KeyboardInterrupt is raised inside an iteration of the for loop of
\* validate_connection after execute_tool_call was entered: inside the call,
\* before or after the tool touched the store, or after the dispatch and
\* before validate_connection returns
InterruptProbeIteration ==
    /\ pc = "ProbeRound"
    /\ LET tool_call == tool_calls[idx]
           function_name == tool_call.function.name
           arguments == json_loads(tool_call.function.arguments)
           r == execute_tool_call(function_name, arguments.val, tasks)
       IN /\ arguments.ok
          /\ execs' = execs + 1
          /\ \/ /\ outcome' = Interrupted(function_name, arguments.val, tasks)
                /\ \/ UNCHANGED <<tasks, log>>
                   \/ /\ tasks' = r.tasks
                      /\ log' = Logged(function_name, arguments.val, tasks, log)
             \/ /\ tasks' = r.tasks
                /\ outcome' = Dispatched(function_name, arguments.val, r, tasks)
                /\ log' = Logged(function_name, arguments.val, tasks, log)
    /\ pc' = "Aborted"
    /\ event' = "interrupt_main"
    /\ UNCHANGED <<conversation_history, tool_calls, idx, sent, base, calls,
                   turns, requested, main>>

\* KeyboardInterrupt is raised after the operator declined, while
\* "Exiting..." is printed and before sys.exit(1) is reached
InterruptExiting ==
    /\ pc = "Confirm"
    /\ \E line \in ConfirmLines :
        /\ ~Accepts(lower(strip(line)))
        /\ main' = [main EXCEPT !.answered = TRUE,
                                !.response = lower(strip(line))]
        /\ base' = Snapshot(line)
    /\ pc' = "Aborted"
    /\ event' = "interrupt_main"
    /\ UNCHANGED <<conversation_history, tasks, tool_calls, idx, sent, calls,
                   execs, turns, requested, outcome, log>>

MainNext ==
    \/ StartProbe
    \/ ProbeFails
    \/ ProbeConnects
    \/ ToolProbeFails
    \/ ToolProbeNoCalls
    \/ ToolProbeCalls
    \/ ProbeExecute
    \/ ConfirmContinue
    \/ DeclineExit
    \/ InterruptMain
    \/ InterruptSeeded
    \/ InterruptProbeIteration
    \/ InterruptExiting
    \/ Next

MainSpec == MainInit /\ [][MainNext]_vars

-----------------------------------------------------------------------------
(* Properties of the conversation loop (Spec) *)

\* number of Messages when the current line of input was read
B == Len(base.history)

\* the Messages the current turn appended after its user Message
Grown == SubSeq(conversation_history, B + 2, Len(conversation_history))

KeepsTranscriptBefore == SubSeq(conversation_history, 1, B) = base.history

FailedCompletion == event \in {"completion_failed", "followup_failed"}

\* C1 as stated: every turn whose first completion carried N >= 1 requests
\* has grown the transcript by N+2 Messages beyond the user Message when it
\* ends, whatever the follow-up completion call did.  It is stated for the
\* rounds in which every argument text decoded, so that it is the outcome of
\* the follow-up call alone that decides it.
C1_RoundAlwaysGrowsByNPlus2 ==
    event \in {"final", "followup_failed"}
        => Len(Grown) = Len(tool_calls) + 2

\* C1 amended: a round in which every argument text decodes and the follow-up
\* completion returns grows the transcript, beyond the user Message, by the
\* assistant Message carrying the N requests, one tool Message per request in
\* order, and one final assistant Message: N+2.  A round whose follow-up call
\* fails has grown it by N+1; a round in which the k-th argument text does not
\* decode has grown it by k (the assistant Message and k-1 tool Messages).
C1_RoundGrowth ==
    LET N == Len(tool_calls) IN
    /\ event = "final" =>
        /\ Len(Grown) = N + 2
        /\ KeepsTranscriptBefore
        /\ conversation_history[B + 1].role = "user"
        /\ Grown[1].role = "assistant"
        /\ Grown[1].tool_calls = tool_calls
        /\ \A i \in 1..N :
            /\ Grown[i + 1].role = "tool"
            /\ Grown[i + 1].tool_call_id = tool_calls[i].id
        /\ Grown[N + 2].role = "assistant"
        /\ DOMAIN Grown[N + 2] = {"role", "content"}
    /\ event = "followup_failed" =>
        /\ Len(Grown) = N + 1
        /\ Grown[N + 1].role = "tool"
    /\ event = "decode_failed" =>
        /\ idx \in 1..N
        /\ ~json_loads(tool_calls[idx].function.arguments).ok
        /\ Len(Grown) = idx

C1_Witness ==
    /\ event = "final"
    /\ Len(tool_calls) = 2
    /\ B > 0

\* C2 as stated: after a failed completion call the transcript equals the
\* transcript as it was before the turn's input was read.
C2_FailedTurnLeavesNoMessage ==
    FailedCompletion => conversation_history = base.history

\* C2 amended: a failed completion call appends nothing and removes nothing:
\* the transcript after the failure is the transcript that was passed to the
\* failed call, which is the transcript before the turn followed by the turn's
\* user Message (first call) and also by the assistant Message with the
\* requests and the N tool Messages (follow-up call).
C2_FailureKeepsSentTranscript ==
    FailedCompletion =>
        /\ conversation_history = sent
        /\ KeepsTranscriptBefore
        /\ conversation_history[B + 1] = UserMessage(Text(strip(base.line)))
        /\ event = "completion_failed" => Len(Grown) = 0
        /\ event = "followup_failed" =>
            /\ Len(Grown) = 1 + Len(tool_calls)
            /\ Grown[1].tool_calls = tool_calls
            /\ \A i \in 2..Len(Grown) : Grown[i].role = "tool"

C2_Witness ==
    /\ event = "followup_failed"
    /\ Len(tool_calls) = 2
    /\ B > 0

\* C3: a failed completion call, first or follow-up, is not fatal: the loop is
\* back in AwaitingInput, the failed call was made once (one call in the turn
\* when the first call failed, two when the follow-up failed), and the next
\* line of input is read and handled: an exit command, an empty line and a
\* user turn are all possible.
C3_FailureIsNotFatal ==
    FailedCompletion =>
        /\ pc = "AwaitingInput"
        /\ calls = base.calls + (IF event = "completion_failed" THEN 1 ELSE 2)
        /\ ENABLED ExitCommand
        /\ ENABLED EmptyInput
        /\ turns < MaxTurns => ENABLED UserTurn

C3_Witness ==
    /\ event = "followup_failed"
    /\ pc = "AwaitingInput"
    /\ turns < MaxTurns
    /\ ENABLED UserTurn

\* the store after the first i invocations of the round in progress
RECURSIVE StoreAfter(_)
StoreAfter(i) ==
    IF i = 0 THEN base.tasks
    ELSE execute_tool_call(tool_calls[i].function.name,
                           json_loads(tool_calls[i].function.arguments).val,
                           StoreAfter(i - 1)).tasks

\* the result text of the i-th invocation of the round in progress
ResultOf(i) ==
    execute_tool_call(tool_calls[i].function.name,
                      json_loads(tool_calls[i].function.arguments).val,
                      StoreAfter(i - 1)).result

\* C4: within a round the requests are executed in the order received, each
\* tool Message appended before the next request is executed: after k
\* executions the transcript holds exactly k tool Messages, the i-th carrying
\* the id and function name of the i-th request and the result of executing
\* it on the store left by requests 1..i-1; add_task(n, d) followed by
\* has_task(n) gives "True".
C4_ExecutedInOrder ==
    event \in {"round", "tool"} =>
        LET k == idx - 1 IN
        /\ Len(Grown) = 1 + k
        /\ execs = base.execs + k
        /\ tasks = StoreAfter(k)
        /\ \A i \in 1..k :
            /\ Grown[1 + i].role = "tool"
            /\ Grown[1 + i].tool_call_id = tool_calls[i].id
            /\ Grown[1 + i].name = tool_calls[i].function.name
            /\ Grown[1 + i].content = ResultOf(i)
        /\ \A i \in 2..k :
            (/\ tool_calls[i - 1].function.name = "add_task"
             /\ tool_calls[i - 1].function.arguments = ArgsAdd
             /\ tool_calls[i].function.name = "has_task"
             /\ tool_calls[i].function.arguments = ArgsName)
            => Grown[1 + i].content = "True"

C4_Witness ==
    /\ event = "tool"
    /\ idx = 3
    /\ base.tasks = <<>>
    /\ tool_calls[1].function.name = "add_task"
    /\ tool_calls[2].function.name = "has_task"
    /\ tool_calls[2].function.arguments = ArgsName
    /\ Grown[3].content = "True"

\* C5: when the first completion carries no request, the turn makes exactly
\* one completion call, appends exactly the user Message and one assistant
\* Message with the returned text, executes no tool and is back in
\* AwaitingInput.
C5_DirectReplyPath ==
    event = "reply" =>
        /\ pc = "AwaitingInput"
        /\ calls = base.calls + 1
        /\ execs = base.execs
        /\ tasks = base.tasks
        /\ KeepsTranscriptBefore
        /\ Len(conversation_history) = B + 2
        /\ conversation_history[B + 1] = UserMessage("Quite")
        /\ conversation_history[B + 2] = AssistantMessage("Hello!")

C5_Witness ==
    /\ event = "reply"
    /\ B > 0
    /\ tasks # <<>>

\* the lines of InputLines that are an exit command once trimmed, in any case
ExitLines ==
    {<<"q", "u", "i", "t">>, <<"\f", "Q", "u", "I", "t", "<U+00A0>">>,
     <<"<U+000B>", "E", "X", "I", "T">>, <<"b", "y", "e", "<U+001F>">>,
     <<"Q", "<U+0085>">>}

\* the lines of InputLines that are empty once trimmed
EmptyLines == {<<>>, <<" ", "\f", "<U+2028>">>}

LineRead == event \in {"exit", "empty", "user"}

\* C6: a line that trimmed is quit, exit, bye or q in any letter case ends the
\* loop: nothing is appended, no completion call is made, no tool is executed,
\* and when it is the first input the transcript is empty at termination.
C6_ExitCommandTerminates ==
    /\ (LineRead /\ base.line \in ExitLines) => event = "exit"
    /\ event = "exit" =>
        /\ pc = "Terminated"
        /\ conversation_history = base.history
        /\ calls = base.calls
        /\ execs = base.execs
        /\ tasks = base.tasks
        /\ turns = 0 => (conversation_history = <<>> /\ calls = 0)

C6_Witness ==
    /\ event = "exit"
    /\ base.line = <<"\f", "Q", "u", "I", "t", "<U+00A0>">>
    /\ turns = 0

\* C7: a line that is empty once trimmed leaves the transcript and the task
\* store unchanged, makes no completion call and stays in AwaitingInput.
C7_EmptyInputIsIgnored ==
    /\ (LineRead /\ base.line \in EmptyLines) => event = "empty"
    /\ event = "empty" =>
        /\ pc = "AwaitingInput"
        /\ conversation_history = base.history
        /\ tasks = base.tasks
        /\ calls = base.calls
        /\ execs = base.execs

C7_Witness ==
    /\ event = "empty"
    /\ base.line = <<" ", "\f", "<U+2028>">>
    /\ conversation_history # <<>>
    /\ tasks # <<>>

\* C10 as stated: a request whose arguments are malformed, argument text that
\* does not decode included, never reaches the loop's error handler: the round
\* is never left through except Exception.
C10_MalformedNeverReachesHandler ==
    event \notin {"decode_failed", "dispatch_raised"}

-----------------------------------------------------------------------------
(* Properties of the tool registry (RegistrySpec) *)

RegisteredTools == {"add_task", "list_tasks", "mark_task_done", "has_task"}

\* C8: a dispatch on a name that is not a registered tool does not raise,
\* whatever the argument bag: it returns "Unknown tool: <name>" (and leaves
\* the store alone).
C8_UnknownToolNeverRaises ==
    (outcome.kind = "dispatch" /\ outcome.tool_name \notin RegisteredTools) =>
        /\ ~outcome.raised
        /\ outcome.result = "Unknown tool: " \o outcome.tool_name
        /\ tasks = outcome.before

C8_Witness ==
    /\ outcome.kind = "dispatch"
    /\ outcome.tool_name = "delete_task"
    /\ outcome.arguments = None
    /\ tasks # <<>>

\* a bag that is not a mapping, lacks a required parameter, has a parameter
\* the tool does not take, or names the task by a value that cannot be a key
Malformed(func, bag) ==
    \/ bag.k # "dict"
    \/ /\ bag.k = "dict"
       /\ \/ \E p \in RequiredParameters(func) : ~HasKey(bag.pairs, p)
          \/ \E i \in 1..Len(bag.pairs) :
                bag.pairs[i].key \notin RequiredParameters(func)
          \/ /\ "name" \in RequiredParameters(func)
             /\ HasKey(bag.pairs, "name")
             /\ Lookup(bag.pairs, "name").k \in {"list", "dict"}

\* the details Python gives for such a call of func
ErrorDetails(func) ==
    {func \o "() missing 1 required positional argument: 'name'",
     func \o "() missing 1 required positional argument: 'description'",
     func \o "() missing 2 required positional arguments: 'name' and 'description'",
     "unhashable type: 'list'", "unhashable type: 'dict'"}
    \cup {func \o "() got an unexpected keyword argument '" \o key \o "'" :
            key \in {"name", "description", "priority"}}
    \cup {"tools." \o func \o "() argument after ** must be a mapping, not " \o ty :
            ty \in {"list", "NoneType", "str", "bool"}}

\* C9: a dispatch on a registered tool with a malformed argument bag does not
\* raise: it returns "Error executing <name>: <detail>" (and leaves the store
\* alone).
C9_MalformedArgumentsNeverRaise ==
    (/\ outcome.kind = "dispatch"
     /\ outcome.tool_name \in RegisteredTools
     /\ Malformed(outcome.tool_name, outcome.arguments)) =>
        /\ ~outcome.raised
        /\ \E detail \in ErrorDetails(outcome.tool_name) :
            outcome.result =
                "Error executing " \o outcome.tool_name \o ": " \o detail
        /\ tasks = outcome.before

C9_Witness ==
    /\ outcome.kind = "dispatch"
    /\ outcome.tool_name = "add_task"
    /\ outcome.arguments = Dict(<<NamePair(Shopping)>>)
    /\ outcome.result =
        "Error executing add_task: add_task() missing 1 required positional argument: 'description'"
    /\ tasks # <<>>

-----------------------------------------------------------------------------
(* Properties of the task store (RegistrySpec) *)

\* the names a dispatch may carry that a dict accepts as a key
TaskNames == {n \in TaskValues : Hashable(n)}

\* the last dispatch called func with exactly the argument bag
Called(func, bag) ==
    /\ outcome.kind = "dispatch"
    /\ outcome.tool_name = func
    /\ outcome.arguments = bag

\* C11: after any sequence of task-store operations has_task(n) is true
\* exactly when add_task(n, d) was executed earlier for some d; a has_task
\* dispatch answers "True" for those names and "False" for the others.
C11_HasTaskIffAdded ==
    \A n \in TaskNames :
        /\ has_task(n, tasks) = Returned(Bool(n \in log.added), tasks)
        /\ Called("has_task", Dict(<<NamePair(n)>>)) =>
              /\ ~outcome.raised
              /\ outcome.result = (IF n \in log.added THEN "True" ELSE "False")
              /\ tasks = outcome.before

\* has_task answered "True" for an added name while another was never added
C11_Witness ==
    /\ Called("has_task", Dict(<<NamePair(Shopping)>>))
    /\ outcome.result = "True"
    /\ log.added = {Shopping}
    /\ execs = MaxDispatches

\* the line of the listing the specification describes for a task
ListedAs(name, description, completed) ==
    "- " \o name.s \o ": " \o description.s
    \o (IF completed THEN " (<U+2705> Done)" ELSE " (<U+23F3> Pending)")

AddBag(n, d) == Dict(<<NamePair(n), DescriptionPair(d)>>)

\* C12: add_task is last-write-wins per name: after add_task(n, d) the store
\* holds exactly one entry for n, with description d, and the listing has
\* exactly one line for n; no two entries share a name, and the number of
\* entries equals the number of distinct names ever added.
C12_LastWriteWins ==
    /\ \A i, j \in 1..Len(tasks) : tasks[i].key = tasks[j].key => i = j
    /\ Len(tasks) = Cardinality(log.added)
    /\ \A n \in TaskNames, d \in DescriptionValues :
         Called("add_task", AddBag(n, d)) =>
            /\ Cardinality({i \in 1..Len(tasks) : tasks[i].val.name = n}) = 1
            /\ Lookup(tasks, n) = Task(n, d, FALSE)
            /\ Cardinality({i \in 1..Len(tasks) :
                   TaskLine(tasks[i].val) = ListedAs(n, d, FALSE)}) = 1
            /\ log.added = {n} =>
                  list_tasks(tasks).ret
                    = Str("Current tasks:\n" \o ListedAs(n, d, FALSE))

\* a name was added a second time, with another description, beside another
\* task
C12_Witness ==
    /\ Called("add_task", AddBag(Shopping, Str("weekly")))
    /\ HasKey(outcome.before, Shopping)
    /\ Lookup(outcome.before, Shopping).description = Groceries
    /\ Len(tasks) = 2

NameBag(n) == Dict(<<NamePair(n)>>)

\* C13: mark_task_done(n) on a name that is not in the store returns the
\* "not found" text and leaves the store unchanged; on a name that is in the
\* store it sets completed, touching no other entry, and from then on the
\* listing shows n with the done marker until n is added again.
C13_MarkTaskDone ==
    /\ \A n \in TaskNames :
         Called("mark_task_done", NameBag(n)) =>
            IF HasKey(outcome.before, n)
            THEN /\ outcome.result = "Task '" \o n.s \o "' marked as completed."
                 /\ Lookup(tasks, n)
                      = [Lookup(outcome.before, n) EXCEPT !.completed = TRUE]
                 /\ Len(tasks) = Len(outcome.before)
                 /\ \A i \in 1..Len(tasks) :
                      tasks[i].key # n => tasks[i] = outcome.before[i]
            ELSE /\ outcome.result = "Task '" \o n.s \o "' not found."
                 /\ tasks = outcome.before
                 /\ ~HasKey(tasks, n)
    /\ \A i \in 1..Len(tasks) :
         tasks[i].key \in log.marked =>
            /\ tasks[i].val.completed
            /\ TaskLine(tasks[i].val)
                 = ListedAs(tasks[i].key, tasks[i].val.description, TRUE)
            /\ Len(tasks) = 1 =>
                 list_tasks(tasks).ret
                   = Str("Current tasks:\n"
                         \o ListedAs(tasks[i].key, tasks[i].val.description, TRUE))

\* a task was marked done earlier and mark_task_done has now been called
\* for a name the store does not hold
C13_Witness ==
    /\ Called("mark_task_done", NameBag(Str("validate")))
    /\ ~HasKey(outcome.before, Str("validate"))
    /\ outcome.result = "Task 'validate' not found."
    /\ Shopping \in log.marked

\* one line break and one line per entry of t, in store order
RECURSIVE ListingOf(_)
ListingOf(t) ==
    IF t = <<>> THEN ""
    ELSE "\n" \o ListedAs(t[1].val.name, t[1].val.description,
                           t[1].val.completed)
         \o ListingOf(Tail(t))

\* C14: list_tasks returns "No tasks found." exactly when the store is
\* empty; otherwise its output is the heading followed by exactly one line
\* per stored task, with the task's name, its description and the done
\* marker exactly when completed is true. A list_tasks dispatch returns that
\* text and leaves the store as it was.
C14_ListTasks ==
    /\ ~list_tasks(tasks).raised
    /\ list_tasks(tasks).ret = Str("No tasks found.") <=> tasks = <<>>
    /\ tasks # <<>> =>
         list_tasks(tasks).ret = Str("Current tasks:" \o ListingOf(tasks))
    /\ Called("list_tasks", Dict(<<>>)) =>
         /\ tasks = outcome.before
         /\ outcome.result = IF tasks = <<>> THEN "No tasks found."
                              ELSE "Current tasks:" \o ListingOf(tasks)

\* list_tasks was dispatched on a store whose only task is done
C14_Witness ==
    /\ Called("list_tasks", Dict(<<>>))
    /\ outcome.result
         = "Current tasks:\n- shopping: buy groceries (<U+2705> Done)"
    /\ Len(tasks) = 1
    /\ tasks[1].val.completed

\* C15: no operation ever removes a task: across every step the names in
\* the store before the step are still in the store after it.
C15_NamesOnlyGrow ==
    [][\A i \in 1..Len(tasks) : HasKey(tasks', tasks[i].key)]_vars

\* a store of two tasks went through a further operation and still holds two
C15_Witness ==
    /\ Called("mark_task_done", NameBag(Shopping))
    /\ Len(outcome.before) = 2
    /\ Len(tasks) = 2

-----------------------------------------------------------------------------
(* Further properties of the conversation loop (Spec) *)

IsPrefix(s, t) == Len(s) <= Len(t) /\ SubSeq(t, 1, Len(s)) = s

\* C16: the transcript is append-only: across every step of
\* chat_with_ollama, failed and interrupted turns included, the transcript
\* before the step is a prefix of the transcript after it.
C16_TranscriptAppendOnly ==
    [][IsPrefix(conversation_history, conversation_history')]_vars

\* a turn failed, the next one ran a tool round and was interrupted, and the
\* Messages of both are still in the transcript
C16_Witness ==
    /\ event = "interrupt_turn"
    /\ Len(conversation_history) >= 4
    /\ conversation_history[1].role = "user"
    /\ conversation_history[2].role = "user"
    /\ conversation_history[Len(conversation_history)].role = "tool"

\* the loop has been left: it reads no line, issues and receives no
\* completion, runs no iteration of a round and observes no interruption
LoopStopped ==
    /\ ~ENABLED ExitCommand
    /\ ~ENABLED EmptyInput
    /\ ~ENABLED UserTurn
    /\ ~ENABLED InterruptInput
    /\ ~ENABLED DirectReply
    /\ ~ENABLED BeginToolRound
    /\ ~ENABLED CompletionFails
    /\ ~ENABLED ExecuteToolCall
    /\ ~ENABLED FollowUpReturns
    /\ ~ENABLED FollowUpFails
    /\ ~ENABLED InterruptTurn
    /\ ~ENABLED InterruptBeforeCompletion
    /\ ~ENABLED InterruptIteration

\* C18: an interruption raised while the loop is blocked in input() moves it
\* to Terminated at once: the transcript and the store are what they were
\* when input() was called, no completion call and no dispatch is made, and
\* the loop takes no further step.
C18_InterruptAtInputTerminates ==
    event = "interrupt" =>
        /\ pc = "Terminated"
        /\ conversation_history = base.history
        /\ tasks = base.tasks
        /\ calls = base.calls
        /\ execs = base.execs
        /\ LoopStopped

\* input() was interrupted after a turn that had filled transcript and store
C18_Witness ==
    /\ event = "interrupt"
    /\ Len(conversation_history) >= 4
    /\ tasks # <<>>
    /\ calls >= 2

\* C19 as stated: an interruption is observed only at the AwaitingInput
\* boundary, so the loop reaches Terminated only by a step taken while it
\* awaits input (an exit command or an interruption of input()), never from
\* RequestingCompletion or from the middle of a tool-calling round.
C19_TerminatedOnlyFromAwaitingInput ==
    pc = "Terminated" => event \in {"exit", "interrupt"}

\* the interruptions that nothing catches
UncaughtEvents ==
    {"interrupt_banner", "interrupt_handler", "interrupt_back_edge",
     "interrupt_after_loop"}

\* the tool Messages the interrupted turn has appended
ToolMessagesAppended == IF Grown = <<>> THEN 0 ELSE Len(Grown) - 1

\* C19 amended: an interruption is observed wherever the loop is when it is
\* raised. Raised inside the try block it ends the loop at once, whatever
\* the loop is doing; Terminated is reached only by an exit command or such
\* an interruption. One raised after the turn has started leaves the turn
\* unresolved: the transcript keeps what was appended so far (the user
\* Message, then possibly the assistant Message with the requests and the
\* tool Messages of the requests already executed) and gets no final
\* assistant Message; at most one dispatch was entered whose tool Message is
\* missing, and the follow-up call was issued only if every tool Message of
\* the round is there. An interruption raised outside the try block (during
\* the banner, in a handler, at the jump back to the top of the loop or after
\* the loop) is caught by nothing: the function is left with transcript and
\* store as they are.
C19_InterruptTerminatesAnywhere ==
    /\ pc = "Terminated" => event \in {"exit", "interrupt", "interrupt_turn"}
    /\ event \in {"interrupt", "interrupt_turn"} =>
         pc = "Terminated" /\ LoopStopped
    /\ event = "interrupt_turn" =>
         /\ KeepsTranscriptBefore
         /\ conversation_history[B + 1] = UserMessage(Text(strip(base.line)))
         /\ Grown # <<>> =>
              /\ Grown[1] = [role |-> "assistant", content |-> Grown[1].content,
                             tool_calls |-> tool_calls]
              /\ Len(Grown) <= 1 + Len(tool_calls)
              /\ \A k \in 2..Len(Grown) :
                   /\ Grown[k].role = "tool"
                   /\ Grown[k].tool_call_id = tool_calls[k - 1].id
         /\ execs - base.execs \in
              {ToolMessagesAppended, ToolMessagesAppended + 1}
         /\ calls - base.calls \in 0..2
         /\ Grown = <<>> => calls - base.calls <= 1 /\ execs = base.execs
         /\ calls - base.calls = 2 =>
              /\ Len(Grown) = 1 + Len(tool_calls)
              /\ execs - base.execs = Len(tool_calls)
    /\ event \in UncaughtEvents => pc = "Aborted" /\ LoopStopped
    /\ (pc = "Aborted" /\ main = NotStarted) => event \in UncaughtEvents

\* the loop was interrupted in the middle of a round of at least two
\* requests, after the first of them was executed
C19_Witness ==
    /\ event = "interrupt_turn"
    /\ Len(tool_calls) >= 2
    /\ Len(Grown) = 2
    /\ idx = 2

\* C20: the follow-up completion call is issued only after all N requests of
\* the round were executed and their N tool Messages appended: the transcript
\* passed to it is the whole transcript and ends with the assistant Message
\* carrying the requests followed by exactly those N tool Messages, in
\* request order; while the call is in flight no user input is read.
C20_FollowUpAfterAllExecuted ==
    pc = "FollowUp" =>
        LET N == Len(tool_calls) IN
        /\ N >= 1
        /\ idx = N + 1
        /\ execs = base.execs + N
        /\ calls = base.calls + 2
        /\ sent = conversation_history
        /\ Len(sent) = B + 2 + N
        /\ SubSeq(sent, 1, B) = base.history
        /\ sent[B + 1].role = "user"
        /\ sent[B + 2] = [role |-> "assistant", content |-> sent[B + 2].content,
                          tool_calls |-> tool_calls]
        /\ \A k \in 1..N :
             /\ sent[B + 2 + k].role = "tool"
             /\ sent[B + 2 + k].tool_call_id = tool_calls[k].id
             /\ sent[B + 2 + k].name = tool_calls[k].function.name
        /\ ~ENABLED ExitCommand
        /\ ~ENABLED EmptyInput
        /\ ~ENABLED UserTurn
        /\ ~ENABLED InterruptInput

\* the follow-up call of a round of MaxRequests requests is in flight
C20_Witness ==
    /\ pc = "FollowUp"
    /\ Len(tool_calls) = MaxRequests
    /\ sent[Len(sent)].role = "tool"
    /\ sent[Len(sent)].tool_call_id = tool_calls[MaxRequests].id

-----------------------------------------------------------------------------
(* Properties of main (MainSpec) *)

\* the control states of chat_with_ollama
ChatStates ==
    {"AwaitingInput", "RequestingCompletion", "ToolCallingRound", "FollowUp",
     "Terminated"}

\* the answers that are y or yes once trimmed, whatever their case
AcceptedLines ==
    {<<"y">>, <<"y", "e", "s">>, <<" ", "Y", " ">>, <<"Y", "E", "S", "\t">>,
     <<"<U+3000>", "Y", "e", "S", "<U+2028>">>}

Accepted == main.answered /\ Text(main.response) \in {"y", "yes"}

\* chat_with_ollama was called: the run is in one of its control states, or
\* an interruption that nothing caught ended it there
ChatCalled ==
    \/ pc \in ChatStates
    \/ pc = "Aborted" /\ event \in UncaughtEvents

\* C17: in main the conversation loop is entered exactly when the probe
\* passed, or the probe failed and the operator answered y or yes
\* (case-insensitive, trimmed); when the probe failed and the operator gives
\* any other answer the process exits with status 1 and chat_with_ollama is
\* never called. A run that an uncaught interruption ended got no further:
\* it entered the loop only under the same condition, and after a refusal
\* it never did.
C17_LoopEnteredIff ==
    /\ ChatCalled =>
          \/ main.probe = "passed"
          \/ main.probe = "failed" /\ Accepted
    /\ (/\ pc # "Aborted"
        /\ \/ main.probe = "passed"
           \/ main.probe = "failed" /\ Accepted) => pc \in ChatStates
    /\ event = "confirmed" =>
          /\ base.line \in AcceptedLines
          /\ main.probe = "failed"
          /\ pc = "AwaitingInput"
    /\ event = "declined" =>
          /\ base.line \in ConfirmLines \ AcceptedLines
          /\ main.probe = "failed"
    /\ main.probe = "failed" /\ main.answered /\ ~Accepted =>
          /\ ~ChatCalled
          /\ conversation_history = <<>>
          /\ calls = 1
          /\ ~ENABLED MainNext
          /\ pc # "Aborted" =>
                /\ pc = "Exited"
                /\ main.exited
                /\ main.exit_status = 1
    /\ main.exited => main.probe = "failed" /\ main.answered /\ ~Accepted

\* the probe failed and the operator answered YeS between an ideographic
\* space and a line separator
C17_Witness ==
    /\ event = "confirmed"
    /\ base.line = <<"<U+3000>", "Y", "e", "S", "<U+2028>">>
    /\ main.probe = "failed"
    /\ pc = "AwaitingInput"

\* the steps by which validate_connection returns True
ProbePassedEvents ==
    {"probe_tools_failed", "probe_no_calls", "probe_decode_failed",
     "probe_dispatch_raised", "probe_done"}

\* C21 as stated: when the connection succeeds validate_connection returns
\* True having issued exactly one completion call, the "Say hello!" request.
C21_ProbeIssuesOneCall ==
    event \in ProbePassedEvents =>
        /\ main.probe = "passed"
        /\ calls = 1
        /\ sent = <<UserMessage("Say hello!")>>

-----------------------------------------------------------------------------
(* Properties of the follow-up completion (Spec) *)

\* C22: a user turn runs at most one tool-calling round and makes at most
\* two completion calls: when the follow-up completion returns, the store is
\* the one the N dispatches of the round left (requests carried by the
\* follow-up are not executed), only the follow-up's text is appended, as an
\* assistant Message with no invocation metadata, and the loop awaits input.
C22_AtMostOneRound ==
    /\ calls <= base.calls + 2
    /\ \A k \in 2..Len(Grown) : "tool_calls" \notin DOMAIN Grown[k]
    /\ event = "final" =>
         LET N == Len(tool_calls)
             last == conversation_history[Len(conversation_history)] IN
         /\ pc = "AwaitingInput"
         /\ calls = base.calls + 2
         /\ execs = base.execs + N
         /\ tasks = StoreAfter(N)
         /\ Len(conversation_history) = B + 3 + N
         /\ DOMAIN last = {"role", "content"}
         /\ last \in {AssistantMessage(m.content) : m \in FollowUps}
         /\ ~ENABLED ExecuteToolCall
         /\ ~ENABLED FollowUpReturns

\* the follow-up returned a Message carrying an add_task request for
\* shopping, and the store holds no such task
C22_Witness ==
    /\ event = "final"
    /\ conversation_history[Len(conversation_history)] = AssistantMessage("")
    /\ ~HasKey(tasks, Shopping)
    /\ execs = base.execs + Len(tool_calls)

-----------------------------------------------------------------------------
(* Further properties of the task store (RegistrySpec) *)

\* C23: re-adding an existing task resets its completion status: right after
\* add_task(n, d) the task n is pending and is listed without the done
\* marker, also when it was done before. Hence a task in the store is
\* completed exactly when mark_task_done was executed on its name after the
\* most recent add_task of that name.
C23_ReAddResets ==
    /\ \A i \in 1..Len(tasks) :
         tasks[i].val.completed <=> tasks[i].key \in log.marked
    /\ \A n \in TaskNames, d \in DescriptionValues :
         Called("add_task", AddBag(n, d)) =>
            /\ ~Lookup(tasks, n).completed
            /\ n \notin log.marked
            /\ TaskLine(Lookup(tasks, n)) = ListedAs(n, d, FALSE)
            /\ Len(tasks) = 1 =>
                 list_tasks(tasks).ret
                   = Str("Current tasks:\n- " \o n.s \o ": " \o d.s
                         \o " (<U+23F3> Pending)")

\* a task that was done has been added again with another description
C23_Witness ==
    /\ Called("add_task", AddBag(Shopping, Str("weekly")))
    /\ HasKey(outcome.before, Shopping)
    /\ Lookup(outcome.before, Shopping) = Task(Shopping, Groceries, TRUE)
    /\ Lookup(tasks, Shopping) = Task(Shopping, Str("weekly"), FALSE)

\* C24: a dispatch changes at most the store entry of the task named in its
\* arguments. has_task, list_tasks, an unknown tool name, a dispatch that
\* returns an "Error executing" result and mark_task_done on an absent name
\* leave the whole store unchanged; mark_task_done on a present name changes
\* only that task's completed flag; add_task writes only the named entry.
C24_DispatchFrame ==
    outcome.kind = "dispatch" =>
        LET f == outcome.tool_name
            a == outcome.arguments
            before == outcome.before
            IsErrorResult ==
                /\ f \in RegisteredTools
                /\ \E detail \in ErrorDetails(f) :
                     outcome.result = "Error executing " \o f \o ": " \o detail
            Named == IF a.k = "dict" /\ HasKey(a.pairs, "name")
                     THEN {Lookup(a.pairs, "name")} ELSE {}
        IN
        /\ (f \in {"has_task", "list_tasks"} \/ f \notin RegisteredTools
              \/ IsErrorResult) => tasks = before
        /\ Len(before) <= Len(tasks)
        /\ \A i \in 1..Len(before) :
             /\ tasks[i].key = before[i].key
             /\ before[i].key \notin Named => tasks[i] = before[i]
        /\ \A i \in (Len(before) + 1)..Len(tasks) : tasks[i].key \in Named
        /\ f = "mark_task_done" =>
             /\ Len(tasks) = Len(before)
             /\ \A i \in 1..Len(before) :
                  /\ tasks[i].val.name = before[i].val.name
                  /\ tasks[i].val.description = before[i].val.description
                  /\ before[i].val.completed => tasks[i].val.completed
             /\ (\A n \in Named : ~HasKey(before, n)) => tasks = before

\* mark_task_done completed one of two pending tasks and the other is as
\* it was
C24_Witness ==
    /\ Called("mark_task_done", NameBag(Str("validate")))
    /\ Len(outcome.before) = 2
    /\ \A i \in 1..2 : ~outcome.before[i].val.completed
    /\ Lookup(tasks, Str("validate")).completed
    /\ ~Lookup(tasks, Shopping).completed

-----------------------------------------------------------------------------
(* Properties of the probe (MainSpec) *)

\* C25: validate_connection seeds the task "validate" whenever its first
\* completion call succeeds, and from then on the task is in the store in
\* every state: the has_task("validate") check at the end of the probe
\* succeeds whatever the model requested, and the chat that follows starts,
\* with an empty transcript, on a store that already holds "validate".
C25_ValidateSeeded ==
    /\ event = "probe_connected" =>
         tasks = <<[key |-> ValidateName,
                    val |-> Task(ValidateName, ValidateDescription, FALSE)]>>
    /\ (pc \in {"ProbeTools", "ProbeRound"} \/ main.probe = "passed") =>
         ValidateName \in log.added
    /\ ValidateName \in log.added => HasKey(tasks, ValidateName)
    /\ event = "probe_done" =>
         has_task(ValidateName, tasks) = Returned(Bool(TRUE), tasks)
    /\ event \in ProbePassedEvents =>
         /\ pc = "AwaitingInput"
         /\ conversation_history = <<>>
         /\ tasks[1].key = ValidateName

\* the chat that followed a passed probe is in a tool round of its own, on a
\* store that holds validate and another task
C25_Witness ==
    /\ main.probe = "passed"
    /\ pc = "FollowUp"
    /\ Len(tasks) >= 2
    /\ tasks[1].key = ValidateName
    /\ conversation_history # <<>>

\* C26: validate_connection returns False, the only outcome that makes main
\* ask the operator, exactly when its first completion call fails. When that
\* call succeeds and the tool exercise then fails (the tool completion
\* raises, no tool call is requested, or executing a requested call raises)
\* it returns True after two completion calls and main enters the loop
\* without asking.
C26_FalseOnlyOnFirstFailure ==
    /\ event = "probe_failed" =>
         /\ main.probe = "failed"
         /\ pc = "Confirm"
         /\ calls = 1
         /\ sent = <<UserMessage("Say hello!")>>
         /\ tasks = <<>>
    /\ pc = "Confirm" => event = "probe_failed"
    /\ main.answered => main.probe = "failed"
    /\ (main.probe = "failed" /\ pc \in {"Confirm", "Exited"}) => calls = 1
    /\ event \in ProbePassedEvents =>
         /\ main.probe = "passed"
         /\ pc = "AwaitingInput"
         /\ calls = 2
    /\ main.probe = "passed" => ~main.answered /\ ~main.exited
    /\ pc \in {"ProbeTools", "ProbeRound"} =>
         /\ main.probe = "none"
         /\ ~ENABLED ProbeFails
         /\ ~ENABLED ConfirmContinue
         /\ ~ENABLED DeclineExit

\* the probe executed one requested call, the argument text of the next did
\* not decode, and the chat was entered all the same
C26_Witness ==
    /\ event = "probe_decode_failed"
    /\ execs = 1
    /\ main.probe = "passed"
    /\ pc = "AwaitingInput"
    /\ ~main.answered

====
